---------------------------- MODULE Spec2Model ----------------------------
(***************************************************************************)
(* A model of the relational-data access layer of rlib: the write cascade  *)
(* engine of the row-store (PostgreSQL) and the enterprise (Oracle)        *)
(* backend, the connection handling of the Oracle operations, the result   *)
(* mapper and the SQL text synthesis.                                      *)
(*                                                                         *)
(* Spec      one caller at a time, relation payloads of up to MaxItems     *)
(* SpecConc  NumCalls concurrent callers on the same database handle       *)
(* SpecMap   the result mapper applied to one raw row                      *)
(* SpecSql   the statement text built from caller-supplied strings         *)
(***************************************************************************)
EXTENDS Naturals, Integers, Sequences, FiniteSets, TLC

\* ------------------------------------------------------------------ bounds
NumCalls == 2
PgPoolSize == 1
PoolMax == 2
MaxItems == 2
MaxConcItems == 1
MaxRows == 2
MaxStrLen == 2
MaxArrLen == 2
MaxKids == 2
MaxPage == 2

Calls == 1..NumCalls
PgConns == 1..PgPoolSize
OraConns == 1..PoolMax

\* ------------------------------------------------------------------- state
VARIABLES
  db,          \* the backend the connection string selected: pg | ora
  call,        \* per call: position, options, statements issued, outcome
  pgTx,        \* per pooled PostgreSQL connection: idle | open | aborted
  pgPending,   \* per PostgreSQL connection: writes of the open transaction
  oraOut,      \* Oracle connections checked out of the pool
  oraPending,  \* per Oracle connection: uncommitted writes
  applied,     \* writes that are durable in the database
  mp,          \* result mapper: the input row and the mapped field
  sq           \* SQL synthesis: the inputs and the statement text

vars == <<db, call, pgTx, pgPending, oraOut, oraPending, applied, mp, sq>>
dbVars == <<pgTx, pgPending, oraOut, oraPending, applied>>

\* ---------------------------------------------------------- relation items
\* A relation item as the cascade sees it: does it carry `_delete: true`,
\* does it carry a truthy identifier field.
Item(del, id) == [del |-> del, id |-> id]
ItemShapes == {Item(d, i) : d \in BOOLEAN, i \in BOOLEAN}

RECURSIVE SeqsUpTo(_, _)
SeqsUpTo(S, n) ==
  IF n = 0 THEN {<<>>}
  ELSE LET shorter == SeqsUpTo(S, n - 1)
       IN shorter \cup {Append(s, x) : s \in {t \in shorter : Len(t) = n - 1}, x \in S}

Payloads(n) == SeqsUpTo(ItemShapes, n)

RelKinds == {"has_many", "has_one", "belongs_to"}

\* A statement of the cascade: its verb, the payload item it comes from
\* (0: the parent), the columns of its WHERE, whether the join column is
\* injected from the parent row.
Stmt(kind, item, where, inject) ==
  [kind |-> kind, item |-> item, where |-> where, inject |-> inject]

Control(kind) == Stmt(kind, 0, {}, FALSE)

NoOut == [kind |-> "none", envelope |-> FALSE, data |-> FALSE, error |-> FALSE, sql |-> FALSE]
Returned(data) == [kind |-> "returned", envelope |-> FALSE, data |-> data, error |-> FALSE, sql |-> FALSE]
Envelope(data, error, sql) == [kind |-> "returned", envelope |-> TRUE, data |-> data, error |-> error, sql |-> sql]
Thrown == [kind |-> "thrown", envelope |-> FALSE, data |-> FALSE, error |-> TRUE, sql |-> FALSE]

IdleCall ==
  [pc |-> "idle", backend |-> "none", op |-> "none", debug |-> FALSE,
   hasPk |-> TRUE, hasFields |-> TRUE, relKind |-> "has_many", items |-> <<>>,
   todo |-> <<>>, issued |-> <<>>, conn |-> 0, acquired |-> 0, rows |-> 0,
   failed |-> FALSE, out |-> NoOut]


\* ------------------------------------------------- PostgreSQL: the server
\* The id of the next statement call c issues.
NextId(c) == <<c, Len(call[c].issued) + 1>>

IsWrite(st) == st.kind \in {"INSERT", "UPDATE", "DELETE"}

\* Inside a failed transaction block PostgreSQL rejects everything but the
\* end of the block.
PgMayRun(k, st, ok) ==
  (pgTx[k] = "aborted" /\ st.kind \notin {"COMMIT", "ROLLBACK"}) => ~ok

\* What one statement sent on pooled connection k does to the server.
PgEffect(c, k, st, ok) ==
  CASE st.kind = "BEGIN" ->
         /\ pgTx' = [pgTx EXCEPT ![k] = IF ok /\ @ = "idle" THEN "open" ELSE @]
         /\ UNCHANGED <<pgPending, applied>>
    [] IsWrite(st) ->
         /\ pgTx' = [pgTx EXCEPT ![k] = IF ~ok /\ @ = "open" THEN "aborted" ELSE @]
         /\ pgPending' = [pgPending EXCEPT ![k] =
                            IF ok /\ pgTx[k] = "open" THEN @ \cup {NextId(c)} ELSE @]
         /\ applied' = IF ok /\ pgTx[k] = "idle" THEN applied \cup {NextId(c)} ELSE applied
    [] st.kind = "COMMIT" ->
         /\ pgTx' = [pgTx EXCEPT ![k] = IF ok THEN "idle" ELSE @]
         /\ pgPending' = [pgPending EXCEPT ![k] = IF ok THEN {} ELSE @]
         /\ applied' = IF ok /\ pgTx[k] = "open" THEN applied \cup pgPending[k] ELSE applied
    [] st.kind = "ROLLBACK" ->
         /\ pgTx' = [pgTx EXCEPT ![k] = IF ok THEN "idle" ELSE @]
         /\ pgPending' = [pgPending EXCEPT ![k] = IF ok THEN {} ELSE @]
         /\ UNCHANGED applied

\* The record a call keeps of a statement it sent.
Sent(st, k, ok) ==
  [kind |-> st.kind, item |-> st.item, where |-> st.where, inject |-> st.inject,
   conn |-> k, ok |-> ok]

\* `sql` is the one pooled handle every operation of every model shares:
\* a statement goes out on whichever pooled connection the driver picks.
PgDispatch(c) == PgConns

\* ------------------------------------------- PostgreSQL: the write engine
\* The payload items, each with its position in the payload.
Tagged(items) == [i \in 1..Len(items) |-> [i |-> i, it |-> items[i]]]

\* update: `_delete` items are kept only when they carry an id, items with
\* an id are updates, the rest are creations; the creations run first, then
\* the updates, then the deletions.
PgIsDelete(t) == t.it.del /\ t.it.id
PgIsUpdate(t) == ~t.it.del /\ t.it.id
PgIsCreate(t) == ~t.it.del /\ ~t.it.id

PgInserts(ts) == [j \in 1..Len(ts) |-> Stmt("INSERT", ts[j].i, {}, TRUE)]
PgUpdates(ts) == [j \in 1..Len(ts) |-> Stmt("UPDATE", ts[j].i, {"id", "joinkey"}, FALSE)]
PgDeletes(ts) == [j \in 1..Len(ts) |-> Stmt("DELETE", ts[j].i, {"id", "joinkey"}, FALSE)]

PgUpdateOps(items) ==
  PgInserts(SelectSeq(Tagged(items), PgIsCreate))
    \o PgUpdates(SelectSeq(Tagged(items), PgIsUpdate))
    \o PgDeletes(SelectSeq(Tagged(items), PgIsDelete))

\* create: every item is a creation.
PgCreateOps(items) == PgInserts(Tagged(items))

Others(c) == Calls \ {c}
MayStart(c, backend, conc) ==
  /\ db = backend
  /\ call[c].pc = "idle"
  /\ conc \/ \A d \in Others(c) : call[d].pc = "idle"

PgStartCreate(c, conc, P, B) ==
  /\ MayStart(c, "pg", conc)
  /\ \E debug \in B, hasPk \in B, items \in P :
       call' = [call EXCEPT ![c] =
                  [IdleCall EXCEPT !.pc = "pgBegin", !.backend = "pg", !.op = "create",
                                   !.debug = debug, !.hasPk = hasPk, !.items = items,
                                   !.todo = PgCreateOps(items)]]
  /\ UNCHANGED <<db, dbVars, mp, sq>>

PgStartUpdate(c, conc, P, B) ==
  /\ MayStart(c, "pg", conc)
  /\ \E debug \in B, items \in P :
       call' = [call EXCEPT ![c] =
                  [IdleCall EXCEPT !.pc = "pgBegin", !.backend = "pg", !.op = "update",
                                   !.debug = debug, !.items = items,
                                   !.todo = PgUpdateOps(items)]]
  /\ UNCHANGED <<db, dbVars, mp, sq>>

\* await sql`BEGIN`, before the try block: a failure is thrown as it is.
PgBegin(c) ==
  /\ call[c].pc = "pgBegin"
  /\ \E k \in PgDispatch(c), ok \in BOOLEAN :
       LET st == Control("BEGIN") IN
       /\ PgMayRun(k, st, ok)
       /\ PgEffect(c, k, st, ok)
       /\ call' = [call EXCEPT ![c].issued = Append(@, Sent(st, k, ok)),
                               ![c].pc = IF ok THEN "pgParent" ELSE "done",
                               ![c].out = IF ok THEN @ ELSE Thrown]
  /\ UNCHANGED <<db, oraOut, oraPending, mp, sq>>

PgParentStmt(c) ==
  IF call[c].op = "create" THEN Stmt("INSERT", 0, {}, FALSE)
  ELSE Stmt("UPDATE", 0, {"where"}, FALSE)

\* The parent INSERT / UPDATE ... RETURNING *.
PgParent(c) ==
  /\ call[c].pc = "pgParent"
  /\ \E k \in PgDispatch(c), ok \in BOOLEAN,
        n \in IF call[c].op = "create" THEN {1} ELSE 0..MaxRows :
       LET st == PgParentStmt(c) IN
       /\ PgMayRun(k, st, ok)
       /\ PgEffect(c, k, st, ok)
       /\ call' = [call EXCEPT ![c].issued = Append(@, Sent(st, k, ok)),
                               ![c].rows = IF ok THEN n ELSE 0,
                               ![c].failed = ~ok,
                               ![c].pc = IF ~ok THEN "pgRollback"
                                         ELSE IF call[c].todo = <<>> THEN "pgCommit"
                                         ELSE "pgRel"]
  /\ UNCHANGED <<db, oraOut, oraPending, mp, sq>>

\* One relation statement; its join value is read from result[0], which
\* throws when the parent statement returned no row.
PgRel(c) ==
  /\ call[c].pc = "pgRel"
  /\ IF call[c].rows = 0
     THEN /\ call' = [call EXCEPT ![c].failed = TRUE, ![c].pc = "pgRollback"]
          /\ UNCHANGED dbVars
     ELSE \E k \in PgDispatch(c), ok \in BOOLEAN :
            LET st == Head(call[c].todo) IN
            /\ PgMayRun(k, st, ok)
            /\ PgEffect(c, k, st, ok)
            /\ call' = [call EXCEPT ![c].issued = Append(@, Sent(st, k, ok)),
                                    ![c].todo = Tail(@),
                                    ![c].failed = ~ok,
                                    ![c].pc = IF ~ok THEN "pgRollback"
                                              ELSE IF Tail(call[c].todo) = <<>> THEN "pgCommit"
                                              ELSE "pgRel"]
            /\ UNCHANGED <<oraOut, oraPending>>
  /\ UNCHANGED <<db, mp, sq>>

\* What the catch block hands back after the ROLLBACK.
PgErrorOut(debug) == IF debug THEN Envelope(FALSE, TRUE, FALSE) ELSE Thrown

PgCommit(c) ==
  /\ call[c].pc = "pgCommit"
  /\ \E k \in PgDispatch(c), ok \in BOOLEAN :
       LET st == Control("COMMIT") IN
       /\ PgMayRun(k, st, ok)
       /\ PgEffect(c, k, st, ok)
       /\ call' = [call EXCEPT ![c].issued = Append(@, Sent(st, k, ok)),
                               ![c].failed = ~ok,
                               ![c].pc = IF ok THEN "done" ELSE "pgRollback",
                               ![c].out = IF ~ok THEN @
                                          ELSE IF call[c].debug THEN Envelope(TRUE, FALSE, TRUE)
                                          ELSE Returned(TRUE)]
  /\ UNCHANGED <<db, oraOut, oraPending, mp, sq>>

\* catch: await sql`ROLLBACK`; an error of the ROLLBACK itself leaves the
\* catch block as an exception.
PgRollback(c) ==
  /\ call[c].pc = "pgRollback"
  /\ \E k \in PgDispatch(c), ok \in BOOLEAN :
       LET st == Control("ROLLBACK") IN
       /\ PgMayRun(k, st, ok)
       /\ PgEffect(c, k, st, ok)
       /\ call' = [call EXCEPT ![c].issued = Append(@, Sent(st, k, ok)),
                               ![c].pc = "done",
                               ![c].out = IF ok THEN PgErrorOut(call[c].debug) ELSE Thrown]
  /\ UNCHANGED <<db, oraOut, oraPending, mp, sq>>

PgStep(c) == PgBegin(c) \/ PgParent(c) \/ PgRel(c) \/ PgCommit(c) \/ PgRollback(c)

\* ----------------------------------------------------- Oracle: the server
\* autoCommit is off: a write stays pending on its connection until COMMIT.
OraEffect(c, k, st, ok) ==
  CASE IsWrite(st) ->
         /\ oraPending' = [oraPending EXCEPT ![k] = IF ok THEN @ \cup {NextId(c)} ELSE @]
         /\ UNCHANGED applied
    [] st.kind = "COMMIT" ->
         /\ oraPending' = [oraPending EXCEPT ![k] = IF ok THEN {} ELSE @]
         /\ applied' = IF ok THEN applied \cup oraPending[k] ELSE applied
    [] st.kind = "ROLLBACK" ->
         /\ oraPending' = [oraPending EXCEPT ![k] = IF ok THEN {} ELSE @]
         /\ UNCHANGED applied
    [] OTHER -> UNCHANGED <<oraPending, applied>>

\* ------------------------------------------------ Oracle: relation cascade
\* processRelationItem: the statement one relation item causes.
OraItemStmts(relKind, t) ==
  IF t.it.del
  THEN IF relKind \in {"has_many", "has_one"}
       THEN <<Stmt("DELETE", t.i, {"joinkey"}, FALSE)>>
       ELSE <<>>
  ELSE IF t.it.id
       THEN <<Stmt("UPDATE", t.i, {"id"}, TRUE)>>
       ELSE <<Stmt("INSERT", t.i, {}, TRUE)>>

RECURSIVE OraCascade(_, _)
OraCascade(relKind, ts) ==
  IF ts = <<>> THEN <<>>
  ELSE OraItemStmts(relKind, Head(ts)) \o OraCascade(relKind, Tail(ts))

RECURSIVE Repeat(_, _)
Repeat(s, n) == IF n = 0 THEN <<>> ELSE s \o Repeat(s, n - 1)

\* A has_many payload is an array of items, a has_one / belongs_to payload
\* is one object.
FitsKind(relKind, items) == relKind = "has_many" \/ Len(items) <= 1

\* ---------------------------------------------------- Oracle: operations
OraErrorOut(debug) == IF debug THEN Envelope(FALSE, TRUE, TRUE) ELSE Thrown
OraValueOut(debug, data) == IF debug THEN Envelope(data, FALSE, TRUE) ELSE Returned(data)

\* A plausible slip: create goes on without the primary-key check.
OraCreateEntryUnchecked(hasPk) == "oraGet"

\* create: a model without primary key is refused before the try block.
OraCreateEntry(hasPk) == IF hasPk THEN "oraGet" ELSE "done"

OraStartCreate(c, conc, P, B, K) ==
  /\ MayStart(c, "ora", conc)
  /\ \E debug \in B, hasPk \in B, relKind \in K, items \in P :
       /\ FitsKind(relKind, items)
       /\ call' = [call EXCEPT ![c] =
                     [IdleCall EXCEPT !.pc = OraCreateEntry(hasPk),
                                      !.backend = "ora", !.op = "create",
                                      !.debug = debug, !.hasPk = hasPk,
                                      !.relKind = relKind, !.items = items,
                                      !.todo = OraCascade(relKind, Tagged(items)),
                                      !.out = IF OraCreateEntry(hasPk) = "done"
                                              THEN Thrown ELSE NoOut]]
  /\ UNCHANGED <<db, dbVars, mp, sq>>

\* update: nothing to set returns before a connection is asked for.
OraStartUpdate(c, conc, P, B, K) ==
  /\ MayStart(c, "ora", conc)
  /\ \E debug \in B, hasFields \in B, relKind \in K, items \in P :
       /\ FitsKind(relKind, items)
       /\ call' = [call EXCEPT ![c] =
                     [IdleCall EXCEPT !.pc = IF hasFields THEN "oraGet" ELSE "done",
                                      !.backend = "ora", !.op = "update",
                                      !.debug = debug, !.hasFields = hasFields,
                                      !.relKind = relKind, !.items = items,
                                      !.out = IF hasFields THEN NoOut
                                              ELSE OraValueOut(debug, FALSE)]]
  /\ UNCHANGED <<db, dbVars, mp, sq>>

OraStartRead(c, conc, B) ==
  /\ MayStart(c, "ora", conc)
  /\ \E op \in {"findMany", "findFirst"}, debug \in B :
       call' = [call EXCEPT ![c] =
                  [IdleCall EXCEPT !.pc = "oraGet", !.backend = "ora", !.op = op,
                                   !.debug = debug]]
  /\ UNCHANGED <<db, dbVars, mp, sq>>

OraStartRaw(c, conc, B) ==
  /\ MayStart(c, "ora", conc)
  /\ call' = [call EXCEPT ![c] =
                [IdleCall EXCEPT !.pc = "oraGet", !.backend = "ora", !.op = "raw"]]
  /\ UNCHANGED <<db, dbVars, mp, sq>>

\* raw has no catch block: its errors leave as they are.
OraCatchOut(c) == IF call[c].op = "raw" THEN Thrown ELSE OraErrorOut(call[c].debug)

OraAfterGet(op) ==
  CASE op = "create" -> "oraParent"
    [] op = "update" -> "oraBegin"
    [] OTHER -> "oraExec"

\* connectionPool.getConnection(): a free connection, or an error; with
\* every connection checked out the request waits.
OraGet(c) ==
  /\ call[c].pc = "oraGet"
  /\ \/ \E k \in OraConns \ oraOut :
          /\ oraOut' = oraOut \cup {k}
          /\ call' = [call EXCEPT ![c].conn = k, ![c].acquired = @ + 1,
                                  ![c].pc = OraAfterGet(call[c].op)]
     \/ /\ call' = [call EXCEPT ![c].failed = TRUE, ![c].out = OraCatchOut(c),
                                ![c].pc = "oraClose"]
        /\ UNCHANGED oraOut
  /\ UNCHANGED <<db, pgTx, pgPending, oraPending, applied, mp, sq>>

\* One connection.execute of call c: what is recorded and what it does.
OraRun(c, st, ok, pcOk, pcFail) ==
  /\ OraEffect(c, call[c].conn, st, ok)
  /\ call' = [call EXCEPT ![c].issued = Append(@, Sent(st, call[c].conn, ok)),
                          ![c].failed = ~ok,
                          ![c].pc = IF ok THEN pcOk ELSE pcFail]
  /\ UNCHANGED <<db, pgTx, pgPending, oraOut, mp, sq>>

\* update only: connection.execute("BEGIN").
OraBegin(c) ==
  /\ call[c].pc = "oraBegin"
  /\ \E ok \in BOOLEAN : OraRun(c, Control("BEGIN"), ok, "oraParent", "oraRollback")

OraAfterParent(c) ==
  CASE call[c].op = "update" -> "oraSelect"
    [] call[c].todo = <<>> -> "oraCommit"
    [] OTHER -> "oraRel"

OraParentStmt(c) ==
  IF call[c].op = "create" THEN Stmt("INSERT", 0, {}, FALSE)
  ELSE Stmt("UPDATE", 0, {"where"}, FALSE)

OraParent(c) ==
  /\ call[c].pc = "oraParent"
  /\ \E ok \in BOOLEAN : OraRun(c, OraParentStmt(c), ok, OraAfterParent(c), "oraRollback")

\* update: re-select the rows; the cascade runs once per row that carries
\* an ID / id value.
OraSelect(c) ==
  /\ call[c].pc = "oraSelect"
  /\ \E ok \in BOOLEAN, n \in 0..MaxRows, withId \in BOOLEAN :
       LET st == Stmt("SELECT", 0, {"where"}, FALSE)
           todo == Repeat(OraCascade(call[c].relKind, Tagged(call[c].items)),
                          IF withId THEN n ELSE 0)
       IN
       /\ (n = 0 => withId)
       /\ (~ok => n = 0 /\ withId)
       /\ OraEffect(c, call[c].conn, st, ok)
       /\ call' = [call EXCEPT ![c].issued = Append(@, Sent(st, call[c].conn, ok)),
                               ![c].failed = ~ok,
                               ![c].rows = n,
                               ![c].todo = IF ok THEN todo ELSE <<>>,
                               ![c].pc = IF ~ok THEN "oraRollback"
                                         ELSE IF todo = <<>> THEN "oraCommit"
                                         ELSE "oraRel"]
       /\ UNCHANGED <<db, pgTx, pgPending, oraOut, mp, sq>>

OraRel(c) ==
  /\ call[c].pc = "oraRel"
  /\ \E ok \in BOOLEAN :
       /\ OraEffect(c, call[c].conn, Head(call[c].todo), ok)
       /\ call' = [call EXCEPT ![c].issued = Append(@, Sent(Head(call[c].todo), call[c].conn, ok)),
                               ![c].todo = Tail(@),
                               ![c].failed = ~ok,
                               ![c].pc = IF ~ok THEN "oraRollback"
                                         ELSE IF Tail(call[c].todo) = <<>> THEN "oraCommit"
                                         ELSE "oraRel"]
       /\ UNCHANGED <<db, pgTx, pgPending, oraOut, mp, sq>>

\* connection.execute("COMMIT"); create then fetches the created record when
\* the insert reported its key, update returns the re-selected rows.
OraCommit(c) ==
  /\ call[c].pc = "oraCommit"
  /\ \E ok \in BOOLEAN, fetch \in BOOLEAN :
       /\ (call[c].op = "update" \/ ~ok) => ~fetch
       /\ OraEffect(c, call[c].conn, Control("COMMIT"), ok)
       /\ call' = [call EXCEPT ![c].issued = Append(@, Sent(Control("COMMIT"), call[c].conn, ok)),
                               ![c].failed = ~ok,
                               ![c].pc = IF ~ok THEN "oraRollback"
                                         ELSE IF fetch THEN "oraFetch" ELSE "oraClose",
                               ![c].out = IF ~ok \/ fetch THEN @
                                          ELSE OraValueOut(call[c].debug,
                                                 call[c].op = "update" /\ call[c].rows > 0)]
       /\ UNCHANGED <<db, pgTx, pgPending, oraOut, mp, sq>>

\* create: SELECT the created record, after the COMMIT.
OraFetch(c) ==
  /\ call[c].pc = "oraFetch"
  /\ \E ok \in BOOLEAN, found \in BOOLEAN :
       /\ ~ok => ~found
       /\ OraEffect(c, call[c].conn, Stmt("SELECT", 0, {"pk"}, FALSE), ok)
       /\ call' = [call EXCEPT ![c].issued = Append(@, Sent(Stmt("SELECT", 0, {"pk"}, FALSE), call[c].conn, ok)),
                               ![c].failed = ~ok,
                               ![c].pc = IF ok THEN "oraClose" ELSE "oraRollback",
                               ![c].out = IF ok THEN OraValueOut(call[c].debug, found) ELSE @]
       /\ UNCHANGED <<db, pgTx, pgPending, oraOut, mp, sq>>

\* catch of create / update: ROLLBACK, whose own error is only logged.
OraRollback(c) ==
  /\ call[c].pc = "oraRollback"
  /\ \E ok \in BOOLEAN :
       /\ OraEffect(c, call[c].conn, Control("ROLLBACK"), ok)
       /\ call' = [call EXCEPT ![c].issued = Append(@, Sent(Control("ROLLBACK"), call[c].conn, ok)),
                               ![c].failed = TRUE,
                               ![c].pc = "oraClose",
                               ![c].out = OraErrorOut(call[c].debug)]
       /\ UNCHANGED <<db, pgTx, pgPending, oraOut, mp, sq>>

\* findMany / findFirst / raw: the one connection.execute of the query.
\* findFirst retries a failed query whose error is ORA-00942 (no such table).
OraExec(c) ==
  /\ call[c].pc = "oraExec"
  /\ \E ok \in BOOLEAN, found \in BOOLEAN, noTable \in BOOLEAN :
       LET st == Stmt(IF call[c].op = "raw" THEN "RAW" ELSE "SELECT", 0, {}, FALSE)
           retry == ~ok /\ noTable /\ call[c].op = "findFirst"
       IN
       /\ ~ok => ~found
       /\ (ok \/ call[c].op # "findFirst") => ~noTable
       /\ OraEffect(c, call[c].conn, st, ok)
       /\ call' = [call EXCEPT ![c].issued = Append(@, Sent(st, call[c].conn, ok)),
                               ![c].failed = ~ok,
                               ![c].pc = IF retry THEN "oraRetryUpper" ELSE "oraClose",
                               ![c].out = IF retry THEN @
                                          ELSE IF ~ok THEN OraCatchOut(c)
                                          ELSE IF call[c].op = "raw" THEN Returned(found)
                                          ELSE OraValueOut(call[c].debug,
                                                           call[c].op = "findMany" \/ found)]
       /\ UNCHANGED <<db, pgTx, pgPending, oraOut, mp, sq>>

\* findFirst, second attempt: the upper-case table name. A query that runs
\* and finds nothing falls through to the "no results" return.
OraRetryUpper(c) ==
  /\ call[c].pc = "oraRetryUpper"
  /\ \E ok \in BOOLEAN, found \in BOOLEAN :
       LET st == Stmt("SELECT", 0, {}, FALSE) IN
       /\ ~ok => ~found
       /\ OraEffect(c, call[c].conn, st, ok)
       /\ call' = [call EXCEPT ![c].issued = Append(@, Sent(st, call[c].conn, ok)),
                               ![c].failed = ~ok,
                               ![c].pc = IF ok THEN "oraClose" ELSE "oraRetryUnquoted",
                               ![c].out = IF ok THEN OraValueOut(call[c].debug, found) ELSE @]
       /\ UNCHANGED <<db, pgTx, pgPending, oraOut, mp, sq>>

\* findFirst, third attempt: the unquoted table name; when it fails too the
\* first error is thrown to the outer catch.
OraRetryUnquoted(c) ==
  /\ call[c].pc = "oraRetryUnquoted"
  /\ \E ok \in BOOLEAN, found \in BOOLEAN :
       LET st == Stmt("SELECT", 0, {}, FALSE) IN
       /\ ~ok => ~found
       /\ OraEffect(c, call[c].conn, st, ok)
       /\ call' = [call EXCEPT ![c].issued = Append(@, Sent(st, call[c].conn, ok)),
                               ![c].failed = ~ok,
                               ![c].pc = "oraClose",
                               ![c].out = IF ok THEN OraValueOut(call[c].debug, found)
                                          ELSE OraErrorOut(call[c].debug)]
       /\ UNCHANGED <<db, pgTx, pgPending, oraOut, mp, sq>>

\* A plausible slip: the close sits at the end of the try block, not in a
\* finally, and is skipped when the call failed.
OraReleasesUnlessFailed(c) == call[c].conn # 0 /\ ~call[c].failed

\* finally: `if (connection) await connection.close()`.
OraReleases(c) == call[c].conn # 0

\* The finally block, then the return or throw decided before it. Closing a
\* connection hands it back to the pool and drops its uncommitted writes.
OraClose(c) ==
  /\ call[c].pc = "oraClose"
  /\ IF OraReleases(c)
     THEN /\ oraOut' = oraOut \ {call[c].conn}
          /\ oraPending' = [oraPending EXCEPT ![call[c].conn] = {}]
          /\ call' = [call EXCEPT ![c].conn = 0, ![c].pc = "done"]
     ELSE /\ call' = [call EXCEPT ![c].pc = "done"]
          /\ UNCHANGED <<oraOut, oraPending>>
  /\ UNCHANGED <<db, pgTx, pgPending, applied, mp, sq>>

OraStep(c) ==
  \/ OraGet(c) \/ OraBegin(c) \/ OraParent(c) \/ OraSelect(c) \/ OraRel(c)
  \/ OraCommit(c) \/ OraFetch(c) \/ OraRollback(c) \/ OraExec(c)
  \/ OraRetryUpper(c) \/ OraRetryUnquoted(c) \/ OraClose(c)

\* ------------------------------------------------------------ the callers
Mine(c, ids) == {id \in ids : id[1] = c}

\* The caller has its result; the call's statements are no longer followed.
Collect(c) ==
  /\ call[c].pc = "done"
  /\ call' = [call EXCEPT ![c] = IdleCall]
  /\ applied' = applied \ Mine(c, applied)
  /\ pgPending' = [k \in PgConns |-> pgPending[k] \ Mine(c, pgPending[k])]
  /\ oraPending' = [k \in OraConns |-> oraPending[k] \ Mine(c, oraPending[k])]
  /\ UNCHANGED <<db, pgTx, oraOut, mp, sq>>

Start(c, conc, P, B, K) ==
  \/ PgStartCreate(c, conc, P, B)
  \/ PgStartUpdate(c, conc, P, B)
  \/ OraStartCreate(c, conc, P, B, K)
  \/ OraStartUpdate(c, conc, P, B, K)
  \/ OraStartRead(c, conc, B)
  \/ OraStartRaw(c, conc, B)

NoMap == [phase |-> "off"]
NoSql == [phase |-> "off"]

Init ==
  /\ db \in {"pg", "ora"}
  /\ call = [c \in Calls |-> IdleCall]
  /\ pgTx = [k \in PgConns |-> "idle"]
  /\ pgPending = [k \in PgConns |-> {}]
  /\ oraOut = {}
  /\ oraPending = [k \in OraConns |-> {}]
  /\ applied = {}
  /\ mp = NoMap
  /\ sq = NoSql

Next ==
  \E c \in Calls :
    Start(c, FALSE, Payloads(MaxItems), BOOLEAN, RelKinds) \/ PgStep(c) \/ OraStep(c) \/ Collect(c)

Spec == Init /\ [][Next]_vars

NextConc ==
  \E c \in Calls :
    Start(c, TRUE, Payloads(MaxConcItems), {TRUE}, {"has_many"}) \/ PgStep(c) \/ OraStep(c) \/ Collect(c)

SpecConc == Init /\ [][NextConc]_vars

\* ------------------------------------------------- claims: write engine
IsWriteCall(c) == call[c].op \in {"create", "update"}
Issued(c) == call[c].issued
IssuedIdx(c) == 1..Len(call[c].issued)
SentKind(c, kind) == {i \in IssuedIdx(c) : Issued(c)[i].kind = kind}
CommittedOk(c) == \E i \in SentKind(c, "COMMIT") : Issued(c)[i].ok
WriteFailed(c) == \E i \in IssuedIdx(c) : IsWrite(Issued(c)[i]) /\ ~Issued(c)[i].ok

\* C1: create and update commit only after the parent statement and every
\* relation statement succeeded; when one of them failed, the call has issued
\* ROLLBACK by the time it hands the error back and none of the statements it
\* executed is applied.
C1_AtomicWrites ==
  \A c \in Calls :
    IsWriteCall(c) =>
      /\ \A i \in SentKind(c, "COMMIT") : \A j \in 1..(i - 1) : Issued(c)[j].ok
      /\ (call[c].pc = "done" /\ WriteFailed(c)) =>
           /\ SentKind(c, "ROLLBACK") # {}
           /\ Mine(c, applied) = {}

\* C1 on the enterprise backend alone, where each call owns its connection.
C1_AtomicWritesOracle == db = "ora" => C1_AtomicWrites

\* A call between the start of its transaction and its COMMIT / ROLLBACK.
InTx(c) ==
  \/ call[c].pc \in {"pgParent", "pgRel", "pgCommit", "pgRollback"}
  \/ call[c].pc \in {"oraBegin", "oraParent", "oraSelect", "oraRel", "oraCommit", "oraRollback"}

ConnsUsed(c) == {Issued(c)[i].conn : i \in IssuedIdx(c)} \cup ({call[c].conn} \ {0})
Owners(ids) == {id[1] : id \in ids}

\* C2: concurrent create/update calls on one database handle each run their
\* statements, from BEGIN to COMMIT/ROLLBACK, on one connection that no
\* other call uses meanwhile, so a COMMIT or ROLLBACK ends only the
\* transaction of the call that issued it.
C2_ExclusiveConnection ==
  /\ \A a \in Calls : InTx(a) => Cardinality(ConnsUsed(a)) <= 1
  /\ \A a \in Calls : \A b \in Others(a) :
       (InTx(a) /\ InTx(b)) => ConnsUsed(a) \cap ConnsUsed(b) = {}
  /\ \A k \in PgConns : Cardinality(Owners(pgPending[k])) <= 1
  /\ \A k \in OraConns : Cardinality(Owners(oraPending[k])) <= 1

\* C2 on the enterprise backend alone.
C2_ExclusiveConnectionOracle == db = "ora" => C2_ExclusiveConnection

ForItem(c, i) == {j \in IssuedIdx(c) : Issued(c)[j].item = i}

\* The statement the claim expects of an item's shape.
ExpectedOf(it, st) ==
  IF it.del THEN st.kind = "DELETE" /\ "joinkey" \in st.where
  ELSE IF it.id THEN st.kind = "UPDATE" /\ "id" \in st.where
  ELSE st.kind = "INSERT" /\ st.inject

OneParentRow(c) == call[c].op = "create" \/ call[c].rows = 1

\* C6: in a create or update that went through (one parent row, COMMIT
\* done), every item of the relation payload caused exactly one statement,
\* chosen by its shape: DELETE by join key for `_delete: true`, UPDATE by
\* identifier for an item with an identifier, INSERT with the join column
\* injected otherwise.
C6_OneStatementPerItem ==
  \A c \in Calls :
    (IsWriteCall(c) /\ CommittedOk(c) /\ OneParentRow(c)) =>
      \A i \in 1..Len(call[c].items) :
        /\ Cardinality(ForItem(c, i)) = 1
        /\ \A j \in ForItem(c, i) : ExpectedOf(call[c].items[i], Issued(c)[j])

\* C7: a create or update run with debug = true never throws, and when it
\* failed it returns { data: null, error, sql }.
C7_DebugEnvelope ==
  \A c \in Calls :
    (IsWriteCall(c) /\ call[c].debug /\ call[c].pc = "done") =>
      /\ call[c].out.kind = "returned" /\ call[c].out.envelope
      /\ call[c].out.error => (~call[c].out.data /\ call[c].out.sql)

\* ------------------------------------------------- result mapper
\* JavaScript values as the mapper sees them.  An array is known by the
\* kinds of its elements: "row" for a related row, otherwise the kind of
\* the wrapped value.
JsVal(t, elems, s) == [t |-> t, elems |-> elems, s |-> s]
Undefined == JsVal("undefined", <<>>, "")
Absent == JsVal("absent", <<>>, "")
Missing == JsVal("missing", <<>>, "")
Null == JsVal("null", <<>>, "")
Obj == JsVal("object", <<>>, "")
Arr(elems) == JsVal("array", elems, "")
Str(s) == JsVal("string", <<>>, s)

JsonTexts == {"null", "[]", "[{}]", "{}", "junk", ""}
RowArrays == {Arr(Repeat(<<"row">>, n)) : n \in 0..MaxArrLen}
Cells == {Missing, Null, Obj} \cup RowArrays \cup {Str(s) : s \in JsonTexts}
Selections == {"true", "object"}

\* `row[field]`: a key the row does not have reads as undefined.
RowField(cell) == IF cell.t = "missing" THEN Undefined ELSE cell

\* `x || null`: undefined, null and the empty string are falsy.
Truthy(v) == ~(v.t \in {"undefined", "null"} \/ v = Str(""))

\* `[relationData]`
Wrap(v) == Arr(<<IF v.t = "object" THEN "row" ELSE v.t>>)

\* JSON.parse on the texts of JsonTexts; ok = FALSE is a SyntaxError.
JsonParse(s) ==
  CASE s = "null" -> [ok |-> TRUE, v |-> Null]
    [] s = "[]" -> [ok |-> TRUE, v |-> Arr(<<>>)]
    [] s = "[{}]" -> [ok |-> TRUE, v |-> Arr(<<"row">>)]
    [] s = "{}" -> [ok |-> TRUE, v |-> Obj]
    [] OTHER -> [ok |-> FALSE, v |-> Undefined]

\* Row-store mapper, one selected field of one row.  `field: true` reads
\* the column alias `table_field`, which a relation cell never has.
PgProcessResults(sel, relType, cell) ==
  LET relationData == RowField(cell) IN
  IF sel = "true" THEN Undefined
  ELSE IF relType = "has_many"
    THEN IF relationData.t = "null" THEN Arr(<<>>)
         ELSE IF relationData.t = "array" THEN relationData
         ELSE Wrap(relationData)
    ELSE IF Truthy(relationData) THEN relationData ELSE Null

\* Enterprise mapper: text cells go through JSON.parse, a parse failure is
\* caught and leaves the text in place.
OraParsed(cell) ==
  IF cell.t = "string" /\ JsonParse(cell.s).ok THEN JsonParse(cell.s).v ELSE cell

OraProcessResults(sel, relType, cell) ==
  LET relationData == OraParsed(cell) IN
  IF sel = "true" THEN Absent
  ELSE IF cell.t = "missing"
    THEN (IF relType = "has_many" THEN Arr(<<>>) ELSE Null)
  ELSE IF relType = "has_many"
    THEN IF relationData.t = "null" THEN Arr(<<>>)
         ELSE IF relationData.t = "array" THEN relationData
         ELSE Wrap(relationData)
    ELSE IF relationData.t = "array" /\ Len(relationData.elems) = 1
           THEN (IF relationData.elems[1] = "row" THEN Obj
                 ELSE JsVal(relationData.elems[1], <<>>, ""))
         ELSE IF Truthy(relationData) THEN relationData ELSE Null

MapInput(backend, sel, relType, cell) ==
  [phase |-> "raw", backend |-> backend, sel |-> sel, relType |-> relType,
   cell |-> cell, out |-> Undefined, threw |-> FALSE]

PgMapRow ==
  /\ mp.phase = "raw" /\ mp.backend = "pg"
  /\ mp' = [mp EXCEPT !.phase = "mapped",
                      !.out = PgProcessResults(mp.sel, mp.relType, mp.cell),
                      !.threw = FALSE]
  /\ UNCHANGED <<db, call, dbVars, sq>>

OraMapRow ==
  /\ mp.phase = "raw" /\ mp.backend = "ora"
  /\ mp' = [mp EXCEPT !.phase = "mapped",
                      !.out = OraProcessResults(mp.sel, mp.relType, mp.cell),
                      !.threw = FALSE]
  /\ UNCHANGED <<db, call, dbVars, sq>>

InitMap ==
  /\ db \in {"pg", "ora"}
  /\ call = [c \in Calls |-> IdleCall]
  /\ pgTx = [k \in PgConns |-> "idle"]
  /\ pgPending = [k \in PgConns |-> {}]
  /\ oraOut = {}
  /\ oraPending = [k \in OraConns |-> {}]
  /\ applied = {}
  /\ mp \in {MapInput(db, sel, relType, cell) :
               sel \in Selections, relType \in RelKinds, cell \in Cells}
  /\ sq = NoSql

NextMap == PgMapRow \/ OraMapRow

SpecMap == InitMap /\ [][NextMap]_vars

\* ------------------------------------------------- claims: result mapper
Mapped == mp.phase = "mapped"

\* C8: the mapped field of a selected has_many relation is an array of
\* rows, whatever the raw cell was: missing key, NULL, an array of any
\* length, JSON text or a bare object.
C8_HasManyIsArray ==
  (Mapped /\ mp.relType = "has_many") =>
    /\ mp.out.t = "array"
    /\ \A i \in 1..Len(mp.out.elems) : mp.out.elems[i] = "row"

\* C9: the mapped field of a selected belongs_to or has_one relation is one
\* object or null, never an array, for a cell that is NULL, an array of
\* zero, one or several rows, or a bare object.
C9_SingleIsObjectOrNull ==
  (/\ Mapped /\ mp.sel = "object" /\ mp.relType \in {"belongs_to", "has_one"}
   /\ mp.cell \in {Null, Obj} \cup RowArrays) =>
    mp.out.t \in {"object", "null"}

\* C10: for a relation cell holding the text "null" or text that is not
\* JSON the mapper throws nothing and yields [] for has_many and null for
\* has_one / belongs_to.
C10_BadJsonIsEmpty ==
  (/\ Mapped /\ mp.sel = "object" /\ mp.cell.t = "string"
   /\ (mp.cell.s = "null" \/ ~JsonParse(mp.cell.s).ok)) =>
    /\ ~mp.threw
    /\ mp.out = (IF mp.relType = "has_many" THEN Arr(<<>>) ELSE Null)

\* ------------------------------------------------- statement text
\* A statement is a sequence of pieces: keywords and model names written by
\* the code, and the characters of strings that came from the caller.
Alphabet == {"a", "'", "\""}
Strings == SeqsUpTo(Alphabet, MaxStrLen)

\* Option values as they arrive from a JSON request body.
Param(t, chars, n) == [t |-> t, chars |-> chars, n |-> n]
NoParam == Param("undefined", <<>>, 0)
NullParam == Param("null", <<>>, 0)
Num(n) == Param("number", <<>>, n)
Text(chars) == Param("string", chars, 0)
Params == {NoParam, NullParam, Num(0), Num(1)} \cup {Text(x) : x \in Strings}
FieldNames == {NoParam} \cup {Text(x) : x \in Strings}

Code(tok) == <<[c |-> tok, caller |-> FALSE]>>
Verbatim(chars) == [i \in 1..Len(chars) |-> [c |-> chars[i], caller |-> TRUE]]
NumText(n) == IF n = 0 THEN "0" ELSE <<"1", "2", "3", "4">>[IF n < 4 THEN n ELSE 4]

\* The characters as they are, no quote doubled.
Unescaped(chars) == Verbatim(chars)

\* `value.replace(/'/g, "''")`
RECURSIVE Escaped(_)
Escaped(chars) ==
  IF chars = <<>> THEN <<>>
  ELSE (IF Head(chars) = "'" THEN Verbatim(<<"'", "'">>) ELSE Verbatim(<<Head(chars)>>))
       \o Escaped(Tail(chars))

\* More of what a JSON body or a direct caller can pass: booleans, dates,
\* an array of n copies of one string, an object { k: string }, and values
\* of no SQL type (undefined, a function, a symbol).
Bool(b) == Param("boolean", <<>>, IF b THEN 1 ELSE 0)
DateValue == Param("date", <<>>, 0)
ArrayOf(chars, n) == Param("array", chars, n)
ObjectOf(chars) == Param("object", chars, 0)
FunctionValue == Param("function", <<>>, 0)
SymbolValue == Param("symbol", <<>>, 0)

\* JSON.stringify of a string's characters: `"` and `\` get a backslash.
RECURSIVE JsonEscaped(_)
JsonEscaped(chars) ==
  IF chars = <<>> THEN <<>>
  ELSE (IF Head(chars) \in {"\"", "\\"} THEN <<"\\", Head(chars)>> ELSE <<Head(chars)>>)
       \o JsonEscaped(Tail(chars))

\* `'${s.replace(/'/g, "''")}'`
QuotedLiteral(chars) == Code("'") \o Escaped(chars) \o Code("'")

\* `value.map(formatValue).join(", ")` for n copies of one string.
RECURSIVE FormattedElements(_, _)
FormattedElements(chars, n) ==
  IF n = 0 THEN <<>>
  ELSE IF n = 1 THEN QuotedLiteral(chars)
  ELSE QuotedLiteral(chars) \o Code(", ") \o FormattedElements(chars, n - 1)

\* `'${JSON.stringify(value).replace(/'/g, "''")}'` for { k: string }.
JsonLiteral(chars) ==
  Code("'") \o Code("{") \o Verbatim(<<"\"">>) \o Code("k") \o Verbatim(<<"\"">>)
    \o Code(":") \o Verbatim(<<"\"">>) \o Escaped(JsonEscaped(chars))
    \o Verbatim(<<"\"">>) \o Code("}") \o Code("'")

formatValue(v) ==
  CASE v.t = "null" -> Code("NULL")
    [] v.t = "string" -> QuotedLiteral(v.chars)
    [] v.t = "number" -> Code(NumText(v.n))
    [] v.t = "boolean" -> Code(IF v.n = 1 THEN "TRUE" ELSE "FALSE")
    [] v.t = "date" -> Code("'") \o Code("iso") \o Code("'")
    [] v.t = "array" -> Code("ARRAY[") \o FormattedElements(v.chars, v.n) \o Code("]")
    [] v.t = "object" -> JsonLiteral(v.chars)
    [] OTHER -> Code("'") \o Code(v.t) \o Code("'")

\* The enterprise formatter: 1/0 for booleans, TO_TIMESTAMP for dates, a
\* parenthesised list for arrays.
OraFormatValue(v) ==
  CASE v.t = "null" -> Code("NULL")
    [] v.t = "string" -> QuotedLiteral(v.chars)
    [] v.t = "number" -> Code(NumText(v.n))
    [] v.t = "boolean" -> Code(IF v.n = 1 THEN "1" ELSE "0")
    [] v.t = "date" -> Code("TO_TIMESTAMP(") \o Code("'") \o Code("iso") \o Code("'")
                         \o Code(", ") \o Code("'") \o Code("format") \o Code("'") \o Code(")")
    [] v.t = "array" -> Code("(") \o FormattedElements(v.chars, v.n) \o Code(")")
    [] v.t = "object" -> JsonLiteral(v.chars)
    [] OTHER -> Code("'") \o Code(v.t) \o Code("'")

\* A template placeholder, `${v}`.
Template(v) ==
  CASE v.t = "string" -> Verbatim(v.chars)
    [] v.t = "number" -> Code(NumText(v.n))
    [] OTHER -> Code(v.t)

\* `"${name}"`
formatIdentifier(name) == Code("\"") \o Verbatim(name) \o Code("\"")

JsTruthy(v) == (v.t = "number" /\ v.n # 0) \/ (v.t = "string" /\ v.chars # <<>>)

\* where = { col: w } on a declared column; no `where` option when w is
\* undefined, and a null condition adds no comparison.
buildWhereClauseStr(w) ==
  IF w.t = "null" THEN Code("1=1")
  ELSE Code("m.col = ") \o formatValue(w)

WherePart(w) == IF w.t = "undefined" THEN <<>> ELSE Code(" WHERE ") \o buildWhereClauseStr(w)

\* orderBy = { [f]: "asc" }
buildOrderByClauseStr(f) == Code("m.") \o formatIdentifier(f.chars) \o Code(" ASC")

OrderPart(f) == IF f.t = "undefined" THEN <<>> ELSE Code(" ORDER BY ") \o buildOrderByClauseStr(f)

PgFindManyText(w, f, limit, skip) ==
  Code("SELECT cols FROM t AS m") \o WherePart(w) \o OrderPart(f)
    \o (IF JsTruthy(limit) THEN Code(" LIMIT ") \o Template(limit) ELSE <<>>)
    \o (IF JsTruthy(skip) THEN Code(" OFFSET ") \o Template(skip) ELSE <<>>)

buildPaginationClause(limit, offset) ==
  IF ~JsTruthy(limit) /\ ~JsTruthy(offset) THEN <<>>
  ELSE IF JsTruthy(limit) /\ JsTruthy(offset)
    THEN Code("OFFSET ") \o Template(offset) \o Code(" ROWS FETCH NEXT ")
           \o Template(limit) \o Code(" ROWS ONLY")
  ELSE IF JsTruthy(limit)
    THEN Code("FETCH FIRST ") \o Template(limit) \o Code(" ROWS ONLY")
  ELSE Code("OFFSET ") \o Template(offset) \o Code(" ROWS")

OraFindManyText(w, f, limit, skip) ==
  Code("SELECT cols FROM t m") \o WherePart(w) \o OrderPart(f)
    \o (IF limit.t # "undefined" \/ skip.t # "undefined"
          THEN Code(" ") \o buildPaginationClause(limit, skip) ELSE <<>>)

\* Parent INSERT: column names are kept only when the model declares them.
PgInsertText(val) ==
  Code("INSERT INTO t (col) VALUES (") \o formatValue(val) \o Code(") RETURNING *")

\* Relation INSERT: the item's own keys become the column list.
PgRelInsertText(key, val) ==
  Code("INSERT INTO target (") \o formatIdentifier(key) \o Code(", fk) VALUES (")
    \o formatValue(val) \o Code(", 1)")

\* How the database reads a statement: inside a literal, inside a quoted
\* identifier, or as SQL.  `leaked` is set when a character from the caller
\* is read as SQL.
RECURSIVE Lex(_, _, _, _)
Lex(text, i, mode, leaked) ==
  IF i > Len(text) THEN [mode |-> mode, leaked |-> leaked]
  ELSE LET ch == text[i].c
           quote == IF mode = "literal" THEN "'" ELSE "\""
           doubled == i < Len(text) /\ text[i + 1].c = quote
       IN IF mode = "sql"
            THEN Lex(text, i + 1,
                     IF ch = "'" THEN "literal" ELSE IF ch = "\"" THEN "ident" ELSE "sql",
                     leaked \/ text[i].caller)
          ELSE IF ch = quote
            THEN (IF doubled THEN Lex(text, i + 2, mode, leaked)
                  ELSE Lex(text, i + 1, "sql", leaked))
          ELSE Lex(text, i + 1, mode, leaked)

Built(stmt, text) == [phase |-> "built", stmt |-> stmt, text |-> text]
ReadySql == [phase |-> "ready", stmt |-> "", text |-> <<>>]
SqlReady == sq.phase = "ready"

PgFindManySql ==
  /\ SqlReady /\ db = "pg"
  /\ \E w \in Params, f \in FieldNames, limit \in Params, skip \in Params :
       sq' = Built("findMany", PgFindManyText(w, f, limit, skip))
  /\ UNCHANGED <<db, call, dbVars, mp>>

OraFindManySql ==
  /\ SqlReady /\ db = "ora"
  /\ \E w \in Params, f \in FieldNames, limit \in Params, skip \in Params :
       sq' = Built("findMany", OraFindManyText(w, f, limit, skip))
  /\ UNCHANGED <<db, call, dbVars, mp>>

PgInsertSql ==
  /\ SqlReady /\ db = "pg"
  /\ \E val \in Params : sq' = Built("insert", PgInsertText(val))
  /\ UNCHANGED <<db, call, dbVars, mp>>

PgRelInsertSql ==
  /\ SqlReady /\ db = "pg"
  /\ \E key \in Strings, val \in Params : sq' = Built("relInsert", PgRelInsertText(key, val))
  /\ UNCHANGED <<db, call, dbVars, mp>>

\* The text goes to the driver (`sql.unsafe(queryString)`,
\* `connection.execute(queryString)`) and the operation returns.
SqlSent ==
  /\ sq.phase = "built"
  /\ sq' = ReadySql
  /\ UNCHANGED <<db, call, dbVars, mp>>

InitSql ==
  /\ db \in {"pg", "ora"}
  /\ call = [c \in Calls |-> IdleCall]
  /\ pgTx = [k \in PgConns |-> "idle"]
  /\ pgPending = [k \in PgConns |-> {}]
  /\ oraOut = {}
  /\ oraPending = [k \in OraConns |-> {}]
  /\ applied = {}
  /\ mp = NoMap
  /\ sq = ReadySql

NextSql == PgFindManySql \/ OraFindManySql \/ PgInsertSql \/ PgRelInsertSql \/ SqlSent

SpecSql == InitSql /\ [][NextSql]_vars

\* ------------------------------------------------- claims: statement text
\* C4: in every statement the builders produce, what the caller supplied
\* sits inside a literal or a quoted identifier: no character from the
\* caller is read as SQL, and every literal and identifier is closed by the
\* end of the statement.
C4_NoVerbatimCallerText ==
  sq.phase = "built" =>
    LET r == Lex(sq.text, 1, "sql", FALSE)
    IN ~r.leaked /\ r.mode = "sql"

\* C4 for what the literal formatter alone receives: data values and
\* filter values.
C4_LiteralsOnly ==
  (sq.phase = "built" /\ sq.stmt = "insert") =>
    LET r == Lex(sq.text, 1, "sql", FALSE)
    IN ~r.leaked /\ r.mode = "sql"

\* ------------------------------------------------- projection round trip
\* The model the selection is made over: two columns, a has_many and a
\* belongs_to relation; "zz" is declared as neither.
ModelColumns == {"id", "name"}
ModelRelations == {"posts", "author"}
RelationType(f) == IF f = "posts" THEN "has_many" ELSE "belongs_to"
SelectKeys == ModelColumns \cup ModelRelations \cup {"zz"}

\* What a select entry maps its key to: true, a nested selection with at
\* least one field marked true, or a nested selection with none.
SelectValues == {"true", "fields", "nofields"}

\* A selection: some keys, each with its value.
SelectTrees == UNION {[K -> SelectValues] : K \in SUBSET SelectKeys}

\* Output column names: `"table_field"` for a column, `"field"` for a
\* relation aggregate.
ColumnAlias(f) == [prefixed |-> TRUE, f |-> f]
RelationAlias(f) == [prefixed |-> FALSE, f |-> f]

\* The aliases buildSelectClause emits for one entry of the selection.
SelectEntryAliases(f, value) ==
  IF value = "true" /\ f \in ModelColumns THEN {ColumnAlias(f)}
  ELSE IF value = "true" /\ f \in ModelRelations THEN {RelationAlias(f)}
  ELSE IF value = "fields" /\ f \in ModelRelations THEN {RelationAlias(f)}
  ELSE {}

buildSelectClause(sel) == UNION {SelectEntryAliases(f, sel[f]) : f \in DOMAIN sel}

\* With no column emitted the clause is `table.*` and the row is keyed by
\* the bare column names.
RowKeys(sel) ==
  IF buildSelectClause(sel) = {} THEN {RelationAlias(f) : f \in ModelColumns}
  ELSE buildSelectClause(sel)

\* Mapped values: the cell of an alias, or what the mapper made up.
Cell(alias) == [t |-> "cell", of |-> alias]
Made(t) == [t |-> t, of |-> RelationAlias("")]
ResultRow(sel) == [a \in RowKeys(sel) |-> Cell(a)]

\* `row[key]`
ReadRow(row, a) == IF a \in DOMAIN row THEN row[a] ELSE Made("undefined")

\* processResults for one entry; relation cells are aggregates (arrays).
MapEntry(f, value, row) ==
  IF value = "true" THEN ReadRow(row, ColumnAlias(f))
  ELSE IF f \in ModelRelations /\ RelationType(f) = "has_many"
    THEN (IF RelationAlias(f) \in DOMAIN row /\ f \in ModelRelations
          THEN row[RelationAlias(f)] ELSE Made("[undefined]"))
  ELSE IF f \in ModelRelations
    THEN (IF RelationAlias(f) \in DOMAIN row THEN row[RelationAlias(f)] ELSE Made("null"))
  ELSE (IF RelationAlias(f) \in DOMAIN row THEN row[RelationAlias(f)] ELSE Made("[]"))

processResultsRow(sel, row) == [f \in DOMAIN sel |-> MapEntry(f, sel[f], row)]

ProjInput(sel) ==
  [phase |-> "selected", sel |-> sel, row |-> ResultRow(<<>>), out |-> <<>>]

\* findMany builds the SELECT clause and the database answers with a row.
ProjQuery ==
  /\ mp.phase = "selected"
  /\ mp' = [mp EXCEPT !.phase = "queried", !.row = ResultRow(mp.sel)]
  /\ UNCHANGED <<db, call, dbVars, sq>>

\* findMany maps the row.
ProjMapRow ==
  /\ mp.phase = "queried"
  /\ mp' = [mp EXCEPT !.phase = "projected", !.out = processResultsRow(mp.sel, mp.row)]
  /\ UNCHANGED <<db, call, dbVars, sq>>

InitProj ==
  /\ db = "pg"
  /\ call = [c \in Calls |-> IdleCall]
  /\ pgTx = [k \in PgConns |-> "idle"]
  /\ pgPending = [k \in PgConns |-> {}]
  /\ oraOut = {}
  /\ oraPending = [k \in OraConns |-> {}]
  /\ applied = {}
  /\ mp \in {ProjInput(sel) : sel \in SelectTrees}
  /\ sq = NoSql

NextProj == ProjQuery \/ ProjMapRow

SpecProj == InitProj /\ [][NextProj]_vars

\* ------------------------------------------------- claims: projection
\* C11: mapping a row keyed by exactly the aliases the projection emitted
\* for a selection gives an object whose keys are exactly the selected
\* columns and relations the projection emitted something for, each
\* holding the cell of its own alias.
C11_ProjectionRoundTrip ==
  mp.phase = "projected" =>
    /\ DOMAIN mp.out = {f \in DOMAIN mp.sel : SelectEntryAliases(f, mp.sel[f]) # {}}
    /\ \A f \in DOMAIN mp.out : SelectEntryAliases(f, mp.sel[f]) = {mp.out[f].of}
    /\ \A f \in DOMAIN mp.out : mp.out[f].t = "cell"

\* C11 restricted to selections of declared columns marked true and
\* declared relations given a nested selection with fields.
C11_DeclaredOnly ==
  (/\ mp.phase = "projected"
   /\ \A f \in DOMAIN mp.sel :
        \/ f \in ModelColumns /\ mp.sel[f] = "true"
        \/ f \in ModelRelations /\ mp.sel[f] = "fields") =>
    /\ DOMAIN mp.out = DOMAIN mp.sel
    /\ \A f \in DOMAIN mp.out : SelectEntryAliases(f, mp.sel[f]) = {mp.out[f].of}

\* ------------------------------------------------- filter compiler
\* A filter tree is the list of an object's entries in insertion order. An
\* entry's condition is a scalar ("value"), an object of operators ("ops"),
\* an array of filter trees ("list") or one nested filter tree ("tree").
Entry(key, kind, v, ops, kids) == [key |-> key, kind |-> kind, v |-> v, ops |-> ops, kids |-> kids]
Direct(key, v) == Entry(key, "value", v, <<>>, <<>>)
Ops(key, ops) == Entry(key, "ops", NoParam, ops, <<>>)
ListOf(key, kids) == Entry(key, "list", NoParam, <<>>, kids)
Nested(key, tree) == Entry(key, "tree", NoParam, <<>>, <<tree>>)
Op(op, v) == [op |-> op, v |-> v]

\* The models the filters range over: "m" and, behind its relation posts,
\* "p", which points back with owner. Both declare the columns a and b.
FilterColumns == {"a", "b"}
HasRelation(tab, key) == (tab = "m" /\ key = "posts") \/ (tab = "p" /\ key = "owner")
TargetOf(tab) == IF tab = "m" THEN "p" ELSE "m"

\* The pieces of a compiled filter: keywords, and comparisons of a column
\* with a formatted literal.
Kw(t) == [t |-> t, tab |-> "", col |-> "", op |-> "", lit |-> <<>>]
Cmp(tab, col, op, lit) == [t |-> "cmp", tab |-> tab, col |-> col, op |-> op, lit |-> lit]
\* What a compiler without the `conditions.length === 0` fallback returns.
NoText == <<>>
Tautology == <<Kw("1=1")>>

FormatFor(impl, v) == IF impl = "ora" THEN OraFormatValue(v) ELSE formatValue(v)

\* `IN (...)`: the row-store compilers format the elements, the enterprise
\* one formats the array.
InList(impl, v) ==
  IF impl = "ora" THEN OraFormatValue(v)
  ELSE Code("(") \o FormattedElements(v.chars, v.n) \o Code(")")

CompareOperators ==
  [eq |-> "=", neq |-> "!=", gt |-> ">", gte |-> ">=", lt |-> "<", lte |-> "<=", like |-> "LIKE"]

\* buildConditionStr of the three read implementations: "pg" and "ora"
\* test for null first, "legacy" (postgres/query.ts) does not.
buildConditionStr(impl, tab, field, op, v) ==
  IF impl # "legacy" /\ v.t = "null"
    THEN <<Cmp(tab, field, IF op = "neq" THEN "IS NOT NULL" ELSE "IS NULL", <<>>)>>
  ELSE IF op \in DOMAIN CompareOperators
    THEN <<Cmp(tab, field, CompareOperators[op], FormatFor(impl, v))>>
  ELSE IF op = "ilike"
    THEN <<Cmp(tab, field, IF impl = "ora" THEN "UPPER LIKE UPPER" ELSE "ILIKE", FormatFor(impl, v))>>
  ELSE IF op = "in"
    THEN (IF v.t = "array" /\ v.n > 0 THEN <<Cmp(tab, field, "IN", InList(impl, v))>>
          ELSE <<Kw("1=0")>>)
  ELSE IF op = "nin"
    THEN (IF v.t = "array" /\ v.n > 0 THEN <<Cmp(tab, field, "NOT IN", InList(impl, v))>>
          ELSE Tautology)
  ELSE Tautology

\* `String(value).replace(/[%_]/g, "\\$&")`: a backslash before % and _.
RECURSIVE EscapePattern(_)
EscapePattern(chars) ==
  IF chars = <<>> THEN <<>>
  ELSE (IF Head(chars) \in {"%", "_"} THEN <<"\\", Head(chars)>> ELSE <<Head(chars)>>)
       \o EscapePattern(Tail(chars))

SugarOperators == {"contains", "startsWith", "endsWith"}

SugarPattern(op, chars) ==
  CASE op = "endsWith" -> <<"%">> \o EscapePattern(chars)
    [] op = "startsWith" -> EscapePattern(chars) \o <<"%">>
    [] OTHER -> <<"%">> \o EscapePattern(chars) \o <<"%">>

\* The string sugar lowers to ilike on the row store, like on the
\* enterprise backend.
SugarCondition(impl, tab, field, op, v) ==
  buildConditionStr(impl, tab, field, IF impl = "ora" THEN "like" ELSE "ilike",
                    Text(SugarPattern(op, v.chars)))

\* `conditions.join(" AND ")`, `orConditions.join(" OR ")`
RECURSIVE JoinWith(_, _)
JoinWith(conds, kw) ==
  IF conds = <<>> THEN <<>>
  ELSE IF Len(conds) = 1 THEN conds[1]
  ELSE conds[1] \o <<Kw(kw)>> \o JoinWith(Tail(conds), kw)

RECURSIVE Flatten(_)
Flatten(lists) == IF lists = <<>> THEN <<>> ELSE Head(lists) \o Flatten(Tail(lists))

\* The members joined with no parentheses around them.
GroupBare(conds, kw) == JoinWith(conds, kw)

\* `(${conditions.join(kw)})`
Group(conds, kw) == <<Kw("(")>> \o JoinWith(conds, kw) \o <<Kw(")")>>

\* NOT in front of the condition with no parentheses.
NegationBare(cond) == <<Kw("NOT")>> \o cond

\* `NOT (${notCondition})`
Negation(cond) == <<Kw("NOT"), Kw("(")>> \o cond \o <<Kw(")")>>

\* The conditions an object of operators adds for a column.
OperatorConditions(impl, tab, field, ops, sugar) ==
  [i \in 1..Len(ops) |->
     IF sugar /\ ops[i].op \in SugarOperators
       THEN SugarCondition(impl, tab, field, ops[i].op, ops[i].v)
     ELSE buildConditionStr(impl, tab, field, ops[i].op, ops[i].v)]

\* A column entry, as the top level reads it (sugar = TRUE) and as the
\* relation loop reads an entry of the nested filter (sugar = FALSE): a
\* scalar, a date or an array is an equality, an object is a list of
\* operators, null and undefined add nothing.
FieldConditions(impl, tab, e, sugar) ==
  CASE e.kind = "value" ->
         (IF e.v.t \in {"null", "undefined"} THEN <<>>
          ELSE IF e.v.t = "object" THEN <<Tautology>>
          ELSE <<buildConditionStr(impl, tab, e.key, "eq", e.v)>>)
    [] e.kind = "ops" -> OperatorConditions(impl, tab, e.key, e.ops, sugar)
    [] e.kind = "list" ->
         <<buildConditionStr(impl, tab, e.key, "eq", ArrayOf(<<>>, Len(e.kids)))>>
    [] OTHER -> [i \in 1..Len(e.kids[1]) |-> Tautology]

\* Whether the relation entry's condition is an object with keys.
HasNestedConditions(e) ==
  \/ e.kind = "tree" /\ e.kids[1] # <<>>
  \/ e.kind = "ops" /\ e.ops # <<>>
  \/ e.kind = "list" /\ e.kids # <<>>

\* The entries of the nested filter, as [relField, relCondition] pairs.
NestedEntries(e) ==
  CASE e.kind = "tree" -> e.kids[1]
    [] e.kind = "ops" -> [i \in 1..Len(e.ops) |-> Direct(e.ops[i].op, e.ops[i].v)]
    [] OTHER -> <<>>

JoinCondition(tab) == [t |-> "join", tab |-> TargetOf(tab), col |-> "fk", op |-> "=", lit |-> <<>>]

\* The EXISTS subquery of a relation entry: every entry of the nested
\* filter goes to buildConditionStr against the target model.
ExistsCondition(impl, tab, e) ==
  LET inner == Flatten([i \in 1..Len(NestedEntries(e)) |->
                          FieldConditions(impl, TargetOf(tab), NestedEntries(e)[i], FALSE)])
  IN <<Kw("EXISTS"), Kw("("), Kw("SELECT 1 FROM"), Kw("WHERE"), JoinCondition(tab)>>
       \o (IF HasNestedConditions(e) /\ inner # <<>>
             THEN <<Kw("AND")>> \o JoinWith(inner, "AND") ELSE <<>>)
       \o <<Kw(")")>>

RECURSIVE processLogicalOperators(_, _, _)
\* The conditions one entry of a filter object contributes.
EntryConditions(impl, tab, e) ==
  LET compiled == [i \in 1..Len(e.kids) |-> processLogicalOperators(impl, tab, e.kids[i])]
      logical == impl # "legacy"
  IN IF logical /\ e.key \in {"AND", "OR"} /\ e.kind = "list"
       THEN (IF e.kids = <<>> THEN <<>> ELSE <<Group(compiled, e.key)>>)
     ELSE IF logical /\ e.key = "NOT" /\ e.kind = "tree"
       THEN <<Negation(compiled[1])>>
     ELSE IF logical /\ e.key = "NOT" /\ e.kind = "list"
       THEN <<Negation(Tautology)>>
     ELSE IF e.key \in FilterColumns
       THEN FieldConditions(impl, tab, e, logical)
     ELSE IF HasRelation(tab, e.key)
       THEN <<ExistsCondition(impl, tab, e)>>
     ELSE <<>>

\* processLogicalOperators of postgres/query-read.ts ("pg") and
\* oracle/query-read.ts ("ora"), buildWhereClauseStr of postgres/query.ts
\* ("legacy").
processLogicalOperators(impl, tab, tree) ==
  LET conditions == Flatten([i \in 1..Len(tree) |-> EntryConditions(impl, tab, tree[i])])
  IN IF conditions = <<>> THEN Tautology ELSE JoinWith(conditions, "AND")

\* ------------------------------------------------- filter trees
\* Filters over "m": flat nodes, one and two levels of AND / OR / NOT,
\* and the single-entry trees that exercise null, the shorthand, the
\* string sugar, unknown keys and relations.
ColumnEntries ==
  {Direct("a", Num(1)), Ops("b", <<Op("neq", Num(1))>>),
   Ops("a", <<Op("lt", Num(1)), Op("gte", Num(0))>>)}

Single == {<<e>> : e \in ColumnEntries}

Leaves ==
  {<<>>} \cup Single
    \cup {<<Direct("a", Num(1)), Ops("b", <<Op("neq", Num(1))>>)>>}

\* The member lists of an AND / OR: up to MaxKids nodes, each empty or one
\* column entry.
Lists == SeqsUpTo({<<>>} \cup Single, MaxKids)

Level1 ==
  {<<ListOf(k, kids)>> : k \in {"AND", "OR"}, kids \in Lists}
    \cup {<<Nested("NOT", t)>> : t \in Leaves}

\* The logical operators put next to columns and inside one another: two
\* members that are one column entry each, an empty list, a list of one
\* empty object, and NOT of one column entry.
Core ==
  {<<ListOf(k, <<x, y>>)>> : k \in {"AND", "OR"}, x \in Single, y \in Single}
    \cup {<<ListOf(k, <<>>)>> : k \in {"AND", "OR"}}
    \cup {<<ListOf(k, <<<<>>>>)>> : k \in {"AND", "OR"}}
    \cup {<<Nested("NOT", t)>> : t \in Single}

Mixed ==
  {<<c>> \o l : c \in ColumnEntries, l \in Core}
    \cup {l \o <<c>> : c \in ColumnEntries, l \in Core}
    \cup {x \o y : x \in {l \in Core : l[1].key = "AND"}, y \in {l \in Core : l[1].key = "OR"}}

Level2 ==
  {<<ListOf(k, <<x, y>>)>> : k \in {"AND", "OR"}, x \in Core, y \in Leaves \cup Core}
    \cup {<<ListOf(k, <<y, x>>)>> : k \in {"AND", "OR"}, x \in Core, y \in Leaves}
    \cup {<<Nested("NOT", x)>> : x \in Core}

LogicTrees == Leaves \cup Level1 \cup Mixed \cup Level2

AllOperators ==
  {"eq", "neq", "gt", "gte", "lt", "lte", "like", "ilike", "in", "nin", "between"}

PatternAlphabet == {"%", "_", "\\", "a"}
PatternStrings == SeqsUpTo(PatternAlphabet, MaxStrLen)

ShorthandValues ==
  {NullParam, Num(0), Num(1), Bool(TRUE), Bool(FALSE), DateValue}
    \cup {Text(x) : x \in Strings}

NullTrees == {<<Ops(c, <<Op(op, NullParam)>>)>> : c \in FilterColumns, op \in AllOperators}

ShorthandTrees ==
  {<<Direct(c, v)>> : c \in FilterColumns, v \in ShorthandValues}
    \cup {<<Ops(c, <<Op("eq", v)>>)>> : c \in FilterColumns, v \in ShorthandValues}

SugarTrees == {<<Ops("a", <<Op(op, Text(x))>>)>> : op \in SugarOperators, x \in PatternStrings}

EmptyTrees ==
  {<<>>, <<Direct("zz", Num(1))>>, <<Ops("zz", <<Op("eq", Num(1))>>)>>,
   <<Direct("zz", Num(1)), Nested("yy", <<>>)>>,
   <<ListOf("AND", <<>>)>>, <<ListOf("OR", <<>>)>>,
   <<ListOf("AND", <<>>), ListOf("OR", <<>>)>>, <<Ops("a", <<>>)>>,
   <<Direct("a", NoParam)>>}

\* Nested filters put under the relation key.
NestedFilters ==
  Leaves \cup Level1 \cup EmptyTrees
    \cup {<<Ops("a", <<Op("contains", Text(<<"a">>))>>)>>, <<Nested("owner", <<>>)>>,
          <<Nested("owner", <<Direct("a", Num(1))>>)>>, <<Direct("a", NullParam)>>,
          <<Ops("a", <<Op("eq", NullParam)>>)>>}

RelationTrees == {<<Nested("posts", f)>> : f \in NestedFilters}

SingleTrees == NullTrees \cup ShorthandTrees \cup SugarTrees \cup EmptyTrees \cup RelationTrees

FilterInput(impl, tree) == [phase |-> "filter", impl |-> impl, tree |-> tree, text |-> <<>>]

FilterInputs ==
  {FilterInput(impl, tree) : impl \in {"pg", "ora"}, tree \in LogicTrees \cup SingleTrees}
    \cup {FilterInput("legacy", tree) : tree \in Leaves \cup SingleTrees}

\* findMany / findFirst build the WHERE clause of their statement.
CompileWhere(impl) ==
  /\ sq.phase = "filter" /\ sq.impl = impl
  /\ sq' = [sq EXCEPT !.phase = "compiled",
                      !.text = processLogicalOperators(impl, "m", sq.tree)]
  /\ UNCHANGED <<db, call, dbVars, mp>>

PgWhere == CompileWhere("pg")
OraWhere == CompileWhere("ora")
LegacyWhere == CompileWhere("legacy")

InitFilter ==
  /\ db = "pg"
  /\ call = [c \in Calls |-> IdleCall]
  /\ pgTx = [k \in PgConns |-> "idle"]
  /\ pgPending = [k \in PgConns |-> {}]
  /\ oraOut = {}
  /\ oraPending = [k \in OraConns |-> {}]
  /\ applied = {}
  /\ mp = NoMap
  /\ sq \in FilterInputs

NextFilter == PgWhere \/ OraWhere \/ LegacyWhere

SpecFilter == InitFilter /\ [][NextFilter]_vars

\* ------------------------------------------------- claims: filter compiler
Compiled == sq.phase = "compiled"

\* C12: no compiled filter compares a column with the literal NULL using
\* `=` or `!=`: eq against null is IS NULL, neq against null IS NOT NULL.
C12_NullNeverEquals ==
  Compiled =>
    /\ \A i \in 1..Len(sq.text) :
         (sq.text[i].t = "cmp" /\ sq.text[i].op \in {"=", "!="}) =>
           sq.text[i].lit # Code("NULL")
    /\ \A c \in FilterColumns :
         /\ sq.tree = <<Ops(c, <<Op("eq", NullParam)>>)>> =>
              sq.text = <<Cmp("m", c, "IS NULL", <<>>)>>
         /\ sq.tree = <<Ops(c, <<Op("neq", NullParam)>>)>> =>
              sq.text = <<Cmp("m", c, "IS NOT NULL", <<>>)>>

\* C12 for the two compilers the backends use today.
C12_NullNeverEqualsCurrent == sq.impl \in {"pg", "ora"} => C12_NullNeverEquals

\* ------------------------------------------------- reading compiled text
\* The compiled text read as SQL reads it: NOT binds tighter than AND, AND
\* tighter than OR, parentheses group. A reading is where it stopped and
\* the truth value on the row; ok is FALSE when the text is no expression.
Reading(i, val) == [ok |-> TRUE, i |-> i, val |-> val]
NoReading == [ok |-> FALSE, i |-> 0, val |-> FALSE]

TokenAt(text, i) == IF i \in 1..Len(text) THEN text[i].t ELSE "end"

Rows == [FilterColumns -> 0..1]

NumberOf(lit) == IF lit = Code("0") THEN 0 ELSE 1

Compare(op, x, y) ==
  CASE op \in {"=", "eq"} -> x = y
    [] op \in {"!=", "neq"} -> x # y
    [] op \in {">", "gt"} -> x > y
    [] op \in {">=", "gte"} -> x >= y
    [] op \in {"<", "lt"} -> x < y
    [] op \in {"<=", "lte"} -> x <= y
    [] OTHER -> FALSE

CmpTruth(tok, row) ==
  IF tok.col \in FilterColumns /\ tok.lit \in {Code("0"), Code("1")}
    THEN Compare(tok.op, row[tok.col], NumberOf(tok.lit))
  ELSE FALSE

RECURSIVE ReadOr(_, _, _)
RECURSIVE ReadOrRest(_, _, _)
RECURSIVE ReadAnd(_, _, _)
RECURSIVE ReadAndRest(_, _, _)
RECURSIVE ReadNot(_, _, _)
RECURSIVE ReadPrimary(_, _, _)

ReadPrimary(text, i, row) ==
  LET t == TokenAt(text, i)
      inner == ReadOr(text, i + 1, row)
      sub == ReadOr(text, i + 4, row)
  IN CASE t = "(" ->
            (IF inner.ok /\ TokenAt(text, inner.i) = ")"
               THEN Reading(inner.i + 1, inner.val) ELSE NoReading)
       [] t = "cmp" -> Reading(i + 1, CmpTruth(text[i], row))
       [] t = "join" -> Reading(i + 1, TRUE)
       [] t = "1=1" -> Reading(i + 1, TRUE)
       [] t = "1=0" -> Reading(i + 1, FALSE)
       [] t = "EXISTS" ->
            (IF /\ TokenAt(text, i + 1) = "("
                /\ TokenAt(text, i + 2) = "SELECT 1 FROM"
                /\ TokenAt(text, i + 3) = "WHERE"
                /\ sub.ok /\ TokenAt(text, sub.i) = ")"
               THEN Reading(sub.i + 1, sub.val) ELSE NoReading)
       [] OTHER -> NoReading

ReadNot(text, i, row) ==
  IF TokenAt(text, i) = "NOT"
    THEN LET r == ReadNot(text, i + 1, row)
         IN IF r.ok THEN Reading(r.i, ~r.val) ELSE NoReading
  ELSE ReadPrimary(text, i, row)

ReadAndRest(text, left, row) ==
  IF left.ok /\ TokenAt(text, left.i) = "AND"
    THEN LET r == ReadNot(text, left.i + 1, row)
         IN IF r.ok THEN ReadAndRest(text, Reading(r.i, left.val /\ r.val), row)
            ELSE NoReading
  ELSE left

ReadAnd(text, i, row) == ReadAndRest(text, ReadNot(text, i, row), row)

ReadOrRest(text, left, row) ==
  IF left.ok /\ TokenAt(text, left.i) = "OR"
    THEN LET r == ReadAnd(text, left.i + 1, row)
         IN IF r.ok THEN ReadOrRest(text, Reading(r.i, left.val \/ r.val), row)
            ELSE NoReading
  ELSE left

ReadOr(text, i, row) == ReadOrRest(text, ReadAnd(text, i, row), row)

\* The whole text is one boolean expression.
IsExpression(text) ==
  LET r == ReadOr(text, 1, [c \in FilterColumns |-> 0])
  IN text # <<>> /\ r.ok /\ r.i = Len(text) + 1

\* The text's truth value on the row.
TextTruth(text, row) == ReadOr(text, 1, row).val

\* An entry that adds no condition: a key that is neither column, relation
\* nor logical operator, an empty AND / OR list, a column with no operator.
AddsNothing(e) ==
  \/ e.key \notin FilterColumns \cup {"AND", "OR", "NOT", "posts"}
  \/ e.key \in {"AND", "OR"} /\ e.kind = "list" /\ e.kids = <<>>
  \/ e.key \in FilterColumns /\ e.kind = "ops" /\ e.ops = <<>>
  \/ e.key \in FilterColumns /\ e.kind = "value" /\ e.v = NoParam

NoCondition(tree) == \A i \in 1..Len(tree) : AddsNothing(tree[i])

\* C13: the compiled filter is a non-empty boolean expression, and a tree
\* with no condition in it (empty object, only unknown keys, empty AND / OR
\* lists) compiles to exactly 1=1.
C13_NeverEmpty ==
  (Compiled /\ sq.impl \in {"pg", "ora"}) =>
    /\ IsExpression(sq.text)
    /\ NoCondition(sq.tree) => sq.text = Tautology

\* C13: an unknown key next to an unknown nested object has been compiled
\* to the tautology.
C13_Witness ==
  /\ Compiled /\ sq.impl \in {"pg", "ora"}
  /\ sq.tree = <<Direct("zz", Num(1)), Nested("yy", <<>>)>>
  /\ sq.text = <<Kw("1=1")>>

\* The filter is {AND: [A, B]} and nothing else.
IsAndPair(tree) ==
  /\ Len(tree) = 1
  /\ tree[1].key = "AND" /\ tree[1].kind = "list" /\ Len(tree[1].kids) = 2

CompiledKid(i) == processLogicalOperators(sq.impl, "m", sq.tree[1].kids[i])

\* (compile(A)) AND (compile(B))
EachParenthesised ==
  <<Kw("(")>> \o CompiledKid(1) \o <<Kw(")"), Kw("AND"), Kw("(")>> \o CompiledKid(2) \o <<Kw(")")>>

\* (compile(A) AND compile(B))
OneGroup == <<Kw("(")>> \o CompiledKid(1) \o <<Kw("AND")>> \o CompiledKid(2) \o <<Kw(")")>>

\* C14 as stated: {AND: [A, B]} compiles to the text
\* (compile(A)) AND (compile(B)), compared token by token, so up to
\* whitespace.
C14_AndOfParenthesised ==
  (Compiled /\ sq.impl \in {"pg", "ora"} /\ IsAndPair(sq.tree)) =>
    sq.text = EachParenthesised

\* C14 as the code has it: {AND: [A, B]} compiles to one parenthesised
\* group, (compile(A) AND compile(B)), which has on every row the truth
\* value of (compile(A)) AND (compile(B)).
C14_AndIsOneGroup ==
  (Compiled /\ sq.impl \in {"pg", "ora"} /\ IsAndPair(sq.tree)) =>
    /\ sq.text = OneGroup
    /\ \A row \in Rows : TextTruth(sq.text, row) = TextTruth(EachParenthesised, row)

\* C14: an AND of a column condition and an OR of two has been compiled.
C14_Witness ==
  /\ Compiled /\ sq.impl = "pg" /\ IsAndPair(sq.tree)
  /\ sq.tree[1].kids[1] = <<Direct("a", Num(1))>>
  /\ Len(sq.tree[1].kids[2]) = 1
  /\ sq.tree[1].kids[2][1].key = "OR" /\ Len(sq.tree[1].kids[2][1].kids) = 2
  /\ sq.text = OneGroup

\* ------------------------------------------------- what a filter tree means
\* Trees of logical operators over number comparisons of columns.
RECURSIVE NumericTree(_)
NumericEntry(e) ==
  \/ /\ e.key \in {"AND", "OR"} /\ e.kind = "list"
     /\ \A i \in 1..Len(e.kids) : NumericTree(e.kids[i])
  \/ e.key = "NOT" /\ e.kind = "tree" /\ NumericTree(e.kids[1])
  \/ e.key \in FilterColumns /\ e.kind = "value" /\ e.v.t = "number"
  \/ /\ e.key \in FilterColumns /\ e.kind = "ops"
     /\ \A i \in 1..Len(e.ops) :
          e.ops[i].v.t = "number" /\ e.ops[i].op \in {"eq", "neq", "gt", "gte", "lt", "lte"}

NumericTree(tree) == \A i \in 1..Len(tree) : NumericEntry(tree[i])

\* The row satisfies the tree: every entry of an object holds; AND holds
\* when every member does, OR when some member does, NOT when the nested
\* tree does not; an empty AND / OR list is no condition.
RECURSIVE TreeTruth(_, _)
EntryTruth(e, row) ==
  CASE e.key = "AND" ->
         \A i \in 1..Len(e.kids) : TreeTruth(e.kids[i], row)
    [] e.key = "OR" ->
         e.kids = <<>> \/ \E i \in 1..Len(e.kids) : TreeTruth(e.kids[i], row)
    [] e.key = "NOT" -> ~TreeTruth(e.kids[1], row)
    [] e.kind = "value" -> row[e.key] = e.v.n
    [] OTHER -> \A i \in 1..Len(e.ops) : Compare(e.ops[i].op, row[e.key], e.ops[i].v.n)

TreeTruth(tree, row) == \A i \in 1..Len(tree) : EntryTruth(tree[i], row)

\* C15: read with SQL's precedence (NOT over AND over OR, parentheses
\* grouping), the compiled text has on every row the truth value of the
\* filter tree it was compiled from.
C15_SameTruth ==
  (Compiled /\ sq.impl \in {"pg", "ora"} /\ NumericTree(sq.tree)) =>
    /\ IsExpression(sq.text)
    /\ \A row \in Rows : TextTruth(sq.text, row) = TreeTruth(sq.tree, row)

\* C15: a column condition next to an OR of two, compiled to
\* c AND c AND ( c OR c ), which some rows satisfy and some do not.
C15_Witness ==
  /\ Compiled /\ sq.impl = "pg"
  /\ sq.tree = <<Ops("a", <<Op("lt", Num(1)), Op("gte", Num(0))>>),
                 ListOf("OR", <<<<Direct("a", Num(1))>>, <<Ops("b", <<Op("neq", Num(1))>>)>>>>)>>
  /\ Len(sq.text) = 9
  /\ sq.text[4].t = "AND" /\ sq.text[5].t = "(" /\ sq.text[7].t = "OR"
  /\ \E row \in Rows : TextTruth(sq.text, row)
  /\ \E row \in Rows : ~TextTruth(sq.text, row)

\* ------------------------------------------------- claims: relation filters
\* The filter is {posts: F} and nothing else.
IsRelationFilter(tree) == Len(tree) = 1 /\ tree[1].key = "posts" /\ tree[1].kind = "tree"

ExistsHead == <<Kw("EXISTS"), Kw("("), Kw("SELECT 1 FROM"), Kw("WHERE"), JoinCondition("m")>>

\* The compiler's own output for the nested filter, against the target.
CompiledNested == processLogicalOperators(sq.impl, TargetOf("m"), sq.tree[1].kids[1])

ExistsOfCompiled ==
  \/ sq.text = ExistsHead \o <<Kw("AND")>> \o CompiledNested \o <<Kw(")")>>
  \/ CompiledNested = Tautology /\ sq.text = ExistsHead \o <<Kw(")")>>

\* C16: for {posts: F} the conditions ANDed into the EXISTS subquery are
\* exactly what the compiler returns for F against the target model, with
\* nested AND / OR / NOT, the string sugar, unknown keys and relation keys
\* treated as at the top level.
C16_NestedIsCompiled ==
  (Compiled /\ sq.impl \in {"pg", "ora"} /\ IsRelationFilter(sq.tree)) => ExistsOfCompiled

\* C16 for nested filters that hold only declared columns with comparison
\* operators or direct values.
C16_NestedColumnsOnly ==
  (/\ Compiled /\ sq.impl \in {"pg", "ora"} /\ IsRelationFilter(sq.tree)
   /\ sq.tree[1].kids[1] \in Leaves) => ExistsOfCompiled

\* ------------------------------------------------- claims: shorthand
\* The filter is {c: v} with v a bare string, number, boolean, date or null.
IsShorthand(tree) ==
  /\ Len(tree) = 1
  /\ tree[1].key \in FilterColumns /\ tree[1].kind = "value"
  /\ tree[1].v \in ShorthandValues

\* What the compiler returns for {c: {eq: v}}.
CompiledLonghand ==
  processLogicalOperators(sq.impl, "m", <<Ops(sq.tree[1].key, <<Op("eq", sq.tree[1].v)>>)>>)

\* C17: {c: v} compiles to the same text as {c: {eq: v}} for a string, a
\* number, a boolean, a date and null.
C17_ShorthandIsEq ==
  (Compiled /\ sq.impl \in {"pg", "ora"} /\ IsShorthand(sq.tree)) =>
    sq.text = CompiledLonghand

\* C17 for the values other than null.
C17_ShorthandIsEqNonNull ==
  (Compiled /\ sq.impl \in {"pg", "ora"} /\ IsShorthand(sq.tree) /\ sq.tree[1].v # NullParam) =>
    sq.text = CompiledLonghand /\ sq.text # Tautology

\* ------------------------------------------------- reading literals and patterns
\* What the database reads back from the body of a quoted literal: two
\* single quotes are one.
RECURSIVE Undouble(_)
Undouble(chars) ==
  IF chars = <<>> THEN <<>>
  ELSE IF Len(chars) >= 2 /\ chars[1] = "'" /\ chars[2] = "'"
    THEN <<"'">> \o Undouble(SubSeq(chars, 3, Len(chars)))
  ELSE <<Head(chars)>> \o Undouble(Tail(chars))

CharsOf(lit) == [i \in 1..Len(lit) |-> lit[i].c]
Body(lit) == SubSeq(CharsOf(lit), 2, Len(lit) - 1)

\* LIKE: % is any run of characters, _ any one character, a character of
\* esc makes the next one literal; a pattern ending in the escape
\* character matches nothing.
RECURSIVE LikeMatch(_, _, _)
LikeMatch(pattern, value, esc) ==
  IF pattern = <<>> THEN value = <<>>
  ELSE IF Head(pattern) \in esc
    THEN /\ Len(pattern) >= 2 /\ value # <<>> /\ Head(value) = pattern[2]
         /\ LikeMatch(SubSeq(pattern, 3, Len(pattern)), Tail(value), esc)
  ELSE IF Head(pattern) = "%"
    THEN \/ LikeMatch(Tail(pattern), value, esc)
         \/ value # <<>> /\ LikeMatch(pattern, Tail(value), esc)
  ELSE IF Head(pattern) = "_"
    THEN value # <<>> /\ LikeMatch(Tail(pattern), Tail(value), esc)
  ELSE value # <<>> /\ Head(value) = Head(pattern)
         /\ LikeMatch(Tail(pattern), Tail(value), esc)

\* The row store escapes with a backslash by default; the enterprise
\* backend has no escape character unless the statement has an ESCAPE
\* clause, and the compiler writes none.
EscapeOf(impl) == IF impl = "ora" THEN {} ELSE {"\\"}

ColumnValues == SeqsUpTo(PatternAlphabet, MaxStrLen + 1)

StartsWith(value, x) == Len(x) <= Len(value) /\ SubSeq(value, 1, Len(x)) = x
EndsWith(value, x) ==
  Len(x) <= Len(value) /\ SubSeq(value, Len(value) - Len(x) + 1, Len(value)) = x
Contains(value, x) ==
  \E i \in 1..(Len(value) + 1) : i + Len(x) - 1 <= Len(value) /\ SubSeq(value, i, i + Len(x) - 1) = x

Literally(op, value, x) ==
  CASE op = "startsWith" -> StartsWith(value, x)
    [] op = "endsWith" -> EndsWith(value, x)
    [] OTHER -> Contains(value, x)

\* The filter is {a: {contains | startsWith | endsWith: s}}.
IsSugar(tree) ==
  /\ Len(tree) = 1 /\ tree[1].kind = "ops" /\ Len(tree[1].ops) = 1
  /\ tree[1].ops[1].op \in SugarOperators /\ tree[1].ops[1].v.t = "string"

SugarMatchesLiterally ==
  /\ Len(sq.text) = 1 /\ sq.text[1].t = "cmp" /\ sq.text[1].op \in {"LIKE", "ILIKE"}
  /\ \A value \in ColumnValues :
       LikeMatch(Undouble(Body(sq.text[1].lit)), value, EscapeOf(sq.impl))
         <=> Literally(sq.tree[1].ops[1].op, value, sq.tree[1].ops[1].v.chars)

\* C18: contains / startsWith / endsWith compile to a LIKE or ILIKE whose
\* pattern matches exactly the values that literally contain, start with or
\* end with s, for s over an alphabet with %, _ and the escape character.
C18_SugarIsLiteral ==
  (Compiled /\ sq.impl \in {"pg", "ora"} /\ IsSugar(sq.tree)) => SugarMatchesLiterally

\* C18 for s without a backslash on the row store, and for s without % and
\* _ on the enterprise backend.
C18_SugarIsLiteralPlain ==
  (/\ Compiled /\ IsSugar(sq.tree)
   /\ LET chars == {sq.tree[1].ops[1].v.chars[i] : i \in 1..Len(sq.tree[1].ops[1].v.chars)}
      IN \/ sq.impl = "pg" /\ "\\" \notin chars
         \/ sq.impl = "ora" /\ chars \cap {"%", "_"} = {})
    => SugarMatchesLiterally

\* ------------------------------------------------- formatting literals
\* formatValue applied to one value: strings over quotes, a backslash and a
\* letter, alone, as the elements of an array and inside an object; the
\* other SQL types; and values of no SQL type.
LiteralAlphabet == Alphabet \cup {"\\"}
LiteralStrings == SeqsUpTo(LiteralAlphabet, MaxStrLen)

LiteralValues ==
  {Text(x) : x \in LiteralStrings}
    \cup {ArrayOf(x, n) : x \in LiteralStrings, n \in 0..MaxArrLen}
    \cup {ObjectOf(x) : x \in LiteralStrings}
    \cup {NullParam, Num(0), Num(1), Bool(TRUE), Bool(FALSE), DateValue,
          NoParam, FunctionValue, SymbolValue}

LiteralInput(impl, v) ==
  [phase |-> "value", impl |-> impl, v |-> v, text |-> <<>>, error |-> "none"]

\* formatValue has no throw statement: it returns a text for every value.
Format(impl) ==
  /\ sq.phase = "value" /\ sq.impl = impl
  /\ sq' = [sq EXCEPT !.phase = "formatted", !.text = FormatFor(impl, sq.v)]
  /\ UNCHANGED <<db, call, dbVars, mp>>

PgFormat == Format("pg")
OraFormat == Format("ora")

InitLit ==
  /\ db = "pg"
  /\ call = [c \in Calls |-> IdleCall]
  /\ pgTx = [k \in PgConns |-> "idle"]
  /\ pgPending = [k \in PgConns |-> {}]
  /\ oraOut = {}
  /\ oraPending = [k \in OraConns |-> {}]
  /\ applied = {}
  /\ mp = NoMap
  /\ sq \in {LiteralInput(impl, v) : impl \in {"pg", "ora"}, v \in LiteralValues}

NextLit == PgFormat \/ OraFormat

SpecLit == InitLit /\ [][NextLit]_vars

Formatted == sq.phase = "formatted"

\* Where the literal opened at i - 1 ends, as SQL reads it: at the first
\* single quote that is not followed by another; 0 when it never ends.
RECURSIVE LiteralEnd(_, _)
LiteralEnd(chars, i) ==
  IF i > Len(chars) THEN 0
  ELSE IF chars[i] # "'" THEN LiteralEnd(chars, i + 1)
  ELSE IF i < Len(chars) /\ chars[i + 1] = "'" THEN LiteralEnd(chars, i + 2)
  ELSE i

\* How many single quotes there are.
RECURSIVE Quotes(_)
Quotes(chars) ==
  IF chars = <<>> THEN 0 ELSE (IF Head(chars) = "'" THEN 1 ELSE 0) + Quotes(Tail(chars))

\* JSON.parse of a string's body: a backslash makes the next character
\* literal.
RECURSIVE JsonUnescaped(_)
JsonUnescaped(chars) ==
  IF chars = <<>> THEN <<>>
  ELSE IF Head(chars) = "\\" /\ Len(chars) >= 2
    THEN <<chars[2]>> \o JsonUnescaped(SubSeq(chars, 3, Len(chars)))
  ELSE <<Head(chars)>> \o JsonUnescaped(Tail(chars))

\* chars[from..to] is one quoted literal that ends at its last character
\* and nowhere before, and reads back as body with its quotes doubled.
IsLiteralOf(chars, from, to, body) ==
  /\ from < to /\ chars[from] = "'"
  /\ LiteralEnd(chars, from + 1) = to
  /\ Undouble(SubSeq(chars, from + 1, to - 1)) = body
  /\ Quotes(SubSeq(chars, from + 1, to - 1)) = 2 * Quotes(body)

\* The elements of an array's text: n literals of the string, each ending
\* where the next separator or the closing bracket stands.
RECURSIVE AreLiteralsOf(_, _, _, _)
AreLiteralsOf(chars, from, n, body) ==
  IF n = 0 THEN from = Len(chars)
  ELSE LET to == LiteralEnd(chars, from + 1)
       IN /\ to # 0 /\ IsLiteralOf(chars, from, to, body)
          /\ IF n = 1 THEN to + 1 = Len(chars)
             ELSE chars[to + 1] = ", " /\ AreLiteralsOf(chars, to + 2, n - 1, body)

JsonBody(chars) ==
  <<"{", "\"", "k", "\"", ":", "\"">> \o chars \o <<"\"", "}">>

\* C19: every string, alone, as an array element or inside an object, is
\* formatted as a single-quoted literal with each single quote doubled;
\* un-doubling the body gives the string back (for an object, its JSON
\* text, which parses back to the string), and the literal ends at its last
\* character and at no earlier one.
C19_QuotesDoubled ==
  Formatted =>
    LET chars == CharsOf(sq.text)
    IN /\ sq.v.t = "string" => IsLiteralOf(chars, 1, Len(chars), sq.v.chars)
       /\ sq.v.t = "array" =>
            /\ chars[1] \in {"ARRAY[", "("} /\ chars[Len(chars)] \in {"]", ")"}
            /\ AreLiteralsOf(chars, 2, sq.v.n, sq.v.chars)
       /\ sq.v.t = "object" =>
            /\ IsLiteralOf(chars, 1, Len(chars), JsonBody(JsonEscaped(sq.v.chars)))
            /\ JsonUnescaped(JsonEscaped(sq.v.chars)) = sq.v.chars

\* C19: an array of two strings that each hold a single quote and a
\* backslash has been formatted.
C19_Witness ==
  /\ Formatted /\ sq.v = ArrayOf(<<"'", "\\">>, 2)
  /\ Len(sq.text) = 13
  /\ AreLiteralsOf(CharsOf(sq.text), 2, 2, <<"'", "\\">>)

\* C20: for a value of no SQL type (undefined, a function, a symbol) the
\* formatter fails with UnsupportedLiteralType and returns no literal.
C20_UnsupportedFails ==
  (Formatted /\ sq.v.t \in {"undefined", "function", "symbol"}) =>
    sq.error = "UnsupportedLiteralType" /\ sq.text = <<>>

\* ------------------------------------------------- pagination
\* findMany with limit and skip each absent or a non-negative integer, with
\* and without where and orderBy.
PageValues == {NoParam} \cup {Num(n) : n \in 0..MaxPage}

PageInput(impl, w, f, limit, skip) ==
  [phase |-> "page", impl |-> impl, w |-> w, f |-> f, limit |-> limit, skip |-> skip,
   text |-> <<>>]

PageInputs ==
  {PageInput(impl, w, f, limit, skip) :
     impl \in {"pg", "ora"}, w \in {NoParam, Num(1)}, f \in {NoParam, Text(<<"a">>)},
     limit \in PageValues, skip \in PageValues}

\* createFindMany up to the point the query string is complete.
PgFindManyPage ==
  /\ sq.phase = "page" /\ sq.impl = "pg"
  /\ sq' = [sq EXCEPT !.phase = "paged",
                      !.text = PgFindManyText(sq.w, sq.f, sq.limit, sq.skip)]
  /\ UNCHANGED <<db, call, dbVars, mp>>

OraFindManyPage ==
  /\ sq.phase = "page" /\ sq.impl = "ora"
  /\ sq' = [sq EXCEPT !.phase = "paged",
                      !.text = OraFindManyText(sq.w, sq.f, sq.limit, sq.skip)]
  /\ UNCHANGED <<db, call, dbVars, mp>>

InitPage ==
  /\ db = "pg"
  /\ call = [c \in Calls |-> IdleCall]
  /\ pgTx = [k \in PgConns |-> "idle"]
  /\ pgPending = [k \in PgConns |-> {}]
  /\ oraOut = {}
  /\ oraPending = [k \in OraConns |-> {}]
  /\ applied = {}
  /\ mp = NoMap
  /\ sq \in PageInputs

NextPage == PgFindManyPage \/ OraFindManyPage

SpecPage == InitPage /\ [][NextPage]_vars

Paged == sq.phase = "paged"

LimitWords == {" LIMIT ", "FETCH FIRST ", " ROWS FETCH NEXT "}
OffsetWords == {" OFFSET ", "OFFSET "}

HasClause(text, words) == \E i \in 1..Len(text) : text[i].c \in words

\* One of the words stands in the text, followed by the number.
Carries(text, words, v) ==
  \E i \in 1..(Len(text) - 1) : text[i].c \in words /\ text[i + 1].c = NumText(v.n)

Given(v) == v.t # "undefined"

PageClauses ==
  /\ IF Given(sq.limit) THEN Carries(sq.text, LimitWords, sq.limit)
     ELSE ~HasClause(sq.text, LimitWords)
  /\ IF Given(sq.skip) THEN Carries(sq.text, OffsetWords, sq.skip)
     ELSE ~HasClause(sq.text, OffsetWords)
  /\ (~Given(sq.limit) /\ ~Given(sq.skip)) =>
       sq.text \in {Code("SELECT cols FROM t AS m") \o WherePart(sq.w) \o OrderPart(sq.f),
                    Code("SELECT cols FROM t m") \o WherePart(sq.w) \o OrderPart(sq.f)}

\* C21: the read query has a row-limit clause carrying the limit exactly
\* when limit is given, an offset clause carrying skip exactly when skip is
\* given, and no pagination text when neither is given, for given values
\* over the non-negative integers.
C21_PageClauses == Paged => PageClauses

\* C21 for given values that are positive.
C21_PageClausesPositive ==
  (/\ Paged
   /\ Given(sq.limit) => sq.limit.n > 0
   /\ Given(sq.skip) => sq.skip.n > 0) => PageClauses

\* ------------------------------------------------- findFirst
\* Selections of declared columns and of a relation with fields, over a
\* table where 0..MaxRows rows match, in the order orderBy gives them.
FirstSelections ==
  {[f \in K |-> IF f \in ModelColumns THEN "true" ELSE "fields"] :
     K \in (SUBSET {"id", "name", "posts"}) \ {{}}}

\* An object as the caller sees it: which matching row it came from, and
\* its keys with the cells they hold.
RowObject(k, row) == [key |-> k, row |-> row]

\* A mapped object keyed like a row, so that the two can be compared: the
\* key f is the alias `f` with no table prefix.
AsObject(mapped) ==
  [a \in {RelationAlias(f) : f \in DOMAIN mapped} |-> mapped[a.f]]

\* Enterprise processResults for one row: a column marked true is read
\* from `table_field`, a relation from `field`.
OraProcessResultsRow(sel, row) ==
  LET present == {f \in DOMAIN sel :
                    \/ sel[f] = "true" /\ ColumnAlias(f) \in DOMAIN row
                    \/ sel[f] # "true"}
  IN [f \in present |->
        IF sel[f] = "true" THEN row[ColumnAlias(f)]
        ELSE IF RelationAlias(f) \in DOMAIN row THEN row[RelationAlias(f)]
        ELSE Made(IF RelationType(f) = "has_many" THEN "[]" ELSE "null")]

\* The rows the database answers with: all that match, or the first one
\* when the statement ends in a one-row clause.
OneRowClauses == {" LIMIT 1", " FETCH FIRST 1 ROW ONLY"}
Answered(n, tail) == IF tail \in OneRowClauses /\ n > 1 THEN 1 ELSE n

Outcome(kind, items, envelope) == [kind |-> kind, items |-> items, envelope |-> envelope]
NoOutcome == Outcome("none", <<>>, FALSE)

FirstInput(backend, debug, sel, n) ==
  [phase |-> "asked", backend |-> backend, debug |-> debug, sel |-> sel, n |-> n,
   op |-> "", tail |-> "", out |-> NoOutcome]

\* findMany: every answered row goes through processResults.
FindManyItems(backend, sel, n) ==
  [k \in 1..n |->
     RowObject(k, AsObject(IF backend = "pg" THEN processResultsRow(sel, ResultRow(sel))
                           ELSE OraProcessResultsRow(sel, ResultRow(sel))))]

PgFindMany ==
  /\ mp.phase = "asked" /\ mp.backend = "pg"
  /\ mp' = [mp EXCEPT !.phase = "answered", !.op = "findMany",
                      !.out = Outcome("list", FindManyItems("pg", mp.sel, Answered(mp.n, "")),
                                      mp.debug)]
  /\ UNCHANGED <<db, call, dbVars, sq>>

OraFindMany ==
  /\ mp.phase = "asked" /\ mp.backend = "ora"
  /\ mp' = [mp EXCEPT !.phase = "answered", !.op = "findMany",
                      !.out = Outcome("list", FindManyItems("ora", mp.sel, Answered(mp.n, "")),
                                      mp.debug)]
  /\ UNCHANGED <<db, call, dbVars, sq>>

\* Row-store findFirst: LIMIT 1, processResults, then final[0] or null.
PgFindFirst ==
  /\ mp.phase = "asked" /\ mp.backend = "pg"
  /\ LET tail == " LIMIT 1"
         final == FindManyItems("pg", mp.sel, Answered(mp.n, tail))
     IN mp' = [mp EXCEPT !.phase = "answered", !.op = "findFirst", !.tail = tail,
                         !.out = IF Len(final) > 0
                                   THEN Outcome("object", <<final[1]>>, mp.debug)
                                 ELSE Outcome("null", <<>>, mp.debug)]
  /\ UNCHANGED <<db, call, dbVars, sq>>

\* Enterprise findFirst: FETCH FIRST 1 ROW ONLY, then result.rows[0] as
\* the driver returned it, or null.
OraFindFirst ==
  /\ mp.phase = "asked" /\ mp.backend = "ora"
  /\ LET tail == " FETCH FIRST 1 ROW ONLY"
         rows == Answered(mp.n, tail)
     IN mp' = [mp EXCEPT !.phase = "answered", !.op = "findFirst", !.tail = tail,
                         !.out = IF rows > 0
                                   THEN Outcome("object", <<RowObject(1, ResultRow(mp.sel))>>,
                                                mp.debug)
                                 ELSE Outcome("null", <<>>, mp.debug)]
  /\ UNCHANGED <<db, call, dbVars, sq>>

InitFirst ==
  /\ db = "pg"
  /\ call = [c \in Calls |-> IdleCall]
  /\ pgTx = [k \in PgConns |-> "idle"]
  /\ pgPending = [k \in PgConns |-> {}]
  /\ oraOut = {}
  /\ oraPending = [k \in OraConns |-> {}]
  /\ applied = {}
  /\ mp \in {FirstInput(backend, debug, sel, n) :
               backend \in {"pg", "ora"}, debug \in BOOLEAN, sel \in FirstSelections,
               n \in 0..MaxRows}
  /\ sq = NoSql

NextFirst == PgFindMany \/ OraFindMany \/ PgFindFirst \/ OraFindFirst

SpecFirst == InitFirst /\ [][NextFirst]_vars

FoundFirst == mp.phase = "answered" /\ mp.op = "findFirst"

FirstIsFirstOfMany ==
  /\ mp.tail \in OneRowClauses
  /\ mp.out.envelope = mp.debug
  /\ IF mp.n = 0 THEN mp.out.kind = "null"
     ELSE /\ mp.out.kind = "object"
          /\ mp.out.items[1] = FindManyItems(mp.backend, mp.sel, mp.n)[1]

\* C22: findFirst issues a query constrained to one row, returns null
\* when no row matches, and otherwise the mapped object that findMany
\* returns first for the same select (wrapped as data in debug mode), on
\* both backends.
C22_FirstIsFirstOfMany == FoundFirst => FirstIsFirstOfMany

\* C22 on the row store.
C22_FirstIsFirstOfManyPg == (FoundFirst /\ mp.backend = "pg") => FirstIsFirstOfMany

\* ------------------------------------------------- registry: target models
\* The model registry as one write call sees it: is the target model of the
\* relation the data names among the registered models.
Registry(known) == [phase |-> "registry", target |-> known]

\* `const targetModelDef = models[targetModelKey]; if (!targetModelDef)
\* continue;` and, in processRelationItem, `if (!targetModelDef) return;`:
\* the items of a relation whose target model is not registered are passed
\* over.
Cascaded(items) == IF mp.target THEN items ELSE <<>>

NamedPayloads == Payloads(MaxItems) \ {<<>>}

PgCreateNamed(c) ==
  /\ MayStart(c, "pg", FALSE)
  /\ \E debug \in BOOLEAN, items \in NamedPayloads :
       call' = [call EXCEPT ![c] =
                  [IdleCall EXCEPT !.pc = "pgBegin", !.backend = "pg", !.op = "create",
                                   !.debug = debug, !.items = items,
                                   !.todo = PgCreateOps(Cascaded(items))]]
  /\ UNCHANGED <<db, dbVars, mp, sq>>

PgUpdateNamed(c) ==
  /\ MayStart(c, "pg", FALSE)
  /\ \E debug \in BOOLEAN, items \in NamedPayloads :
       call' = [call EXCEPT ![c] =
                  [IdleCall EXCEPT !.pc = "pgBegin", !.backend = "pg", !.op = "update",
                                   !.debug = debug, !.items = items,
                                   !.todo = PgUpdateOps(Cascaded(items))]]
  /\ UNCHANGED <<db, dbVars, mp, sq>>

OraCreateNamed(c) ==
  /\ MayStart(c, "ora", FALSE)
  /\ \E debug \in BOOLEAN, relKind \in RelKinds, items \in NamedPayloads :
       /\ FitsKind(relKind, items)
       /\ call' = [call EXCEPT ![c] =
                     [IdleCall EXCEPT !.pc = OraCreateEntry(TRUE),
                                      !.backend = "ora", !.op = "create",
                                      !.debug = debug, !.relKind = relKind,
                                      !.items = items,
                                      !.todo = OraCascade(relKind, Tagged(Cascaded(items)))]]
  /\ UNCHANGED <<db, dbVars, mp, sq>>

InitRegistry ==
  /\ db \in {"pg", "ora"}
  /\ call = [c \in Calls |-> IdleCall]
  /\ pgTx = [k \in PgConns |-> "idle"]
  /\ pgPending = [k \in PgConns |-> {}]
  /\ oraOut = {}
  /\ oraPending = [k \in OraConns |-> {}]
  /\ applied = {}
  /\ mp \in {Registry(known) : known \in BOOLEAN}
  /\ sq = NoSql

NextRegistry ==
  \E c \in Calls :
    \/ PgCreateNamed(c) \/ PgUpdateNamed(c) \/ OraCreateNamed(c)
    \/ PgStep(c)
    \/ OraGet(c) \/ OraParent(c) \/ OraRel(c) \/ OraCommit(c) \/ OraFetch(c)
    \/ OraRollback(c) \/ OraClose(c)
    \/ Collect(c)

SpecRegistry == InitRegistry /\ [][NextRegistry]_vars

HasOutcome(c) == call[c].out.kind # "none"
ReportsError(c) == call[c].out.kind = "thrown" \/ call[c].out.error

\* C23: a create or update whose data names a relation whose target model
\* is not in the registry ends with an error, and has executed no SQL
\* statement when it does.
C23_MissingTargetFails ==
  \A c \in Calls :
    (IsWriteCall(c) /\ HasOutcome(c) /\ ~mp.target) =>
      (ReportsError(c) /\ \A i \in IssuedIdx(c) : ~Issued(c)[i].ok)

\* C23, the part that holds: with the target model missing no relation
\* statement is sent.
C23_MissingTargetSendsNone ==
  \A c \in Calls :
    (IsWriteCall(c) /\ ~mp.target) =>
      \A i \in IssuedIdx(c) : Issued(c)[i].item = 0

\* --------------------------------------------- claims: after the COMMIT
CommitAt(c) == {i \in SentKind(c, "COMMIT") : Issued(c)[i].ok}
RollbackAfterCommit(c) ==
  \E i \in CommitAt(c), j \in SentKind(c, "ROLLBACK") : i < j

\* C24: COMMIT is the last statement of a create or update that can fail:
\* a call that throws or returns an error envelope has left no committed
\* row and has not issued ROLLBACK after a successful COMMIT.
C24_CommitIsLast ==
  \A c \in Calls :
    (IsWriteCall(c) /\ HasOutcome(c) /\ ReportsError(c)) =>
      (Mine(c, applied) = {} /\ ~RollbackAfterCommit(c))

\* C24 on the row store, whose create and update return straight after
\* the COMMIT.
C24_CommitIsLastPg ==
  \A c \in Calls :
    (IsWriteCall(c) /\ call[c].backend = "pg" /\ HasOutcome(c) /\ ReportsError(c)) =>
      ~RollbackAfterCommit(c)

\* C24 for the enterprise update, which returns the rows it re-selected
\* before the COMMIT.
C24_CommitIsLastOraUpdate ==
  \A c \in Calls :
    (call[c].op = "update" /\ call[c].backend = "ora" /\ HasOutcome(c) /\ ReportsError(c)) =>
      (Mine(c, applied) = {} /\ ~RollbackAfterCommit(c))

\* ------------------------------------------------ update: the rows cascaded
\* A table of up to MaxRows rows with one filtered column; the update's
\* where tests `v = w`, its data sets v to `set` (0: it sets another
\* column), and names a relation with one item to create.
CellValues == {1, 2}
RowIds == 1..MaxRows
Tables == [RowIds -> CellValues]

UpdateInput(backend, table, w, set, keyIsId) ==
  [phase |-> "rows", backend |-> backend, table |-> table, w |-> w, set |-> set,
   keyIsId |-> keyIsId, rowsAffected |-> {}, cascaded |-> [r \in RowIds |-> 0],
   failed |-> FALSE]

UpdateInputs ==
  {UpdateInput(backend, table, w, set, keyIsId) :
     backend \in {"pg", "ora"}, table \in Tables, w \in CellValues,
     set \in {0} \cup CellValues, keyIsId \in BOOLEAN}

\* The rows a `WHERE v = w` finds in a table.
Matching(table, w) == {r \in RowIds : table[r] = w}

\* UPDATE ... SET ... WHERE v = w.
Updated(table, w, set) ==
  [r \in RowIds |-> IF table[r] = w /\ set # 0 THEN set ELSE table[r]]

First(rows) == CHOOSE r \in rows : \A q \in rows : r <= q

\* Row store: UPDATE ... RETURNING *, then the cascade once, with the join
\* value of result[0]; reading result[0] of an empty result throws.
PgUpdateCascade ==
  /\ mp.phase = "rows" /\ mp.backend = "pg"
  /\ LET result == Matching(mp.table, mp.w) IN
     mp' = [mp EXCEPT !.phase = "updated",
                      !.table = Updated(mp.table, mp.w, mp.set),
                      !.rowsAffected = result,
                      !.failed = (result = {}),
                      !.cascaded = [r \in RowIds |->
                                      IF result # {} /\ r = First(result) THEN 1 ELSE 0]]
  /\ UNCHANGED <<db, call, dbVars, sq>>

\* Enterprise backend: the UPDATE, then SELECT * with the same where, then
\* the cascade for every selected record whose ID / id field is truthy.
OraUpdateCascade ==
  /\ mp.phase = "rows" /\ mp.backend = "ora"
  /\ LET after == Updated(mp.table, mp.w, mp.set)
         updatedRecords == Matching(after, mp.w)
     IN
     mp' = [mp EXCEPT !.phase = "updated",
                      !.table = after,
                      !.rowsAffected = Matching(mp.table, mp.w),
                      !.cascaded = [r \in RowIds |->
                                      IF r \in updatedRecords /\ mp.keyIsId THEN 1 ELSE 0]]
  /\ UNCHANGED <<db, call, dbVars, sq>>

InitUpdate ==
  /\ db \in {"pg", "ora"}
  /\ call = [c \in Calls |-> IdleCall]
  /\ pgTx = [k \in PgConns |-> "idle"]
  /\ pgPending = [k \in PgConns |-> {}]
  /\ oraOut = {}
  /\ oraPending = [k \in OraConns |-> {}]
  /\ applied = {}
  /\ mp \in {u \in UpdateInputs : u.backend = db}
  /\ sq = NoSql

NextUpdate == PgUpdateCascade \/ OraUpdateCascade

SpecUpdate == InitUpdate /\ [][NextUpdate]_vars

CascadedAsAffected ==
  \A r \in RowIds : mp.cascaded[r] = IF r \in mp.rowsAffected THEN 1 ELSE 0

\* C25: an update with a relation payload runs the relation cascade exactly
\* once for every row the UPDATE affected and for no other row.
C25_CascadeEqualsAffected ==
  (mp.phase = "updated" /\ ~mp.failed) => CascadedAsAffected

\* C25 on the row store when the UPDATE affected one row.
C25_CascadeEqualsAffectedPgOne ==
  (mp.phase = "updated" /\ mp.backend = "pg" /\ Cardinality(mp.rowsAffected) = 1)
    => CascadedAsAffected

\* C25 on the enterprise backend when the key column is named id and the
\* update leaves the filtered column as it was.
C25_CascadeEqualsAffectedOraPlain ==
  (mp.phase = "updated" /\ mp.backend = "ora" /\ mp.keyIsId /\ mp.set \in {0, mp.w})
    => CascadedAsAffected

\* C25: no row the UPDATE did not affect is cascaded.
C25_NoUnaffectedCascaded ==
  mp.phase = "updated" => \A r \in RowIds \ mp.rowsAffected : mp.cascaded[r] = 0

\* ------------------------------------------- create: keys and join values
\* A parent model with the columns id and b, a primary key made of one or
\* both of them, and a has_many relation whose local column is `from`. The
\* data supplies the key columns in `supplied` and one relation item, which
\* may carry its own value for the join column (0: it carries none).
KeyColumns == {"id", "b"}
PrimaryKeys == {<<"id">>, <<"b">>, <<"id", "b">>, <<"b", "id">>}
Range(s) == {s[i] : i \in DOMAIN s}
NoValue == 0

KeyInput(backend, op, pk, supplied, from, parent, itemJoin) ==
  [phase |-> "keys", backend |-> backend, op |-> op, pk |-> pk, supplied |-> supplied,
   from |-> from, parent |-> parent, itemJoin |-> itemJoin,
   placeholders |-> {}, bindVars |-> {}, pkValues |-> {}, selectWhere |-> {},
   failed |-> FALSE, returned |-> FALSE, inserted |-> FALSE, join |-> NoValue]

KeyInputs ==
  {KeyInput(backend, op, pk, supplied, from, parent, itemJoin) :
     backend \in {"pg", "ora"}, op \in {"create", "update"}, pk \in PrimaryKeys,
     supplied \in SUBSET KeyColumns, from \in KeyColumns,
     parent \in [KeyColumns -> CellValues], itemJoin \in {NoValue} \cup CellValues}

\* getPrimaryKeyColumns(modelDef).filter(pk => !fields.includes(pk))
missingPks(pk, supplied) == SelectSeq(pk, LAMBDA col : col \notin supplied)

\* fields: the name column and the supplied key columns, then the missing
\* primary keys.
SuppliedFields(supplied) ==
  <<"name">> \o SelectSeq(<<"id", "b">>, LAMBDA col : col \in supplied)
Fields(pk, supplied) == SuppliedFields(supplied) \o missingPks(pk, supplied)

Numeral(i) == <<"1", "2", "3">>[i]
SeqName(col) == IF col = "id" THEN "id_seq" ELSE "b_seq"

\* Every `:name` of the statement text: the sequence selects, the VALUES
\* list, and RETURNING ... INTO :col for every primary-key column.
Placeholders(pk, supplied) ==
  LET fields == Fields(pk, supplied)
      missing == Range(missingPks(pk, supplied))
  IN {SeqName(col) : col \in missing}
       \cup {IF fields[i] \in missing THEN SeqName(fields[i]) ELSE Numeral(i) :
               i \in DOMAIN fields}
       \cup Range(pk)

\* bindVars: one numbered entry per supplied value, `${col}_seq` for a
\* missing primary key, `col` for a supplied one.
BindVars(pk, supplied) ==
  LET missing == Range(missingPks(pk, supplied)) IN
  {Numeral(i) : i \in DOMAIN SuppliedFields(supplied)}
    \cup {IF col \in missing THEN SeqName(col) ELSE col : col \in Range(pk)}

\* pkValues: outBinds is keyed by the names of the OUT binds, and is read
\* under the column's own name.
PkValues(pk, supplied) == {col \in Range(pk) : col \in BindVars(pk, supplied)}

\* The statement is refused when a placeholder has no bind variable.
Executes(pk, supplied) == Placeholders(pk, supplied) \subseteq BindVars(pk, supplied)

\* Enterprise create: the parent INSERT, the cascade with the value of the
\* first primary-key column as parentId, the COMMIT, the SELECT of the
\* created record by the key values that are known.
OraCreateKeys ==
  /\ mp.phase = "keys" /\ mp.backend = "ora" /\ mp.op = "create"
  /\ LET ok == Executes(mp.pk, mp.supplied)
         known == IF ok THEN PkValues(mp.pk, mp.supplied) ELSE {}
         pkValue == IF mp.pk[1] \in known THEN mp.parent[mp.pk[1]] ELSE NoValue
     IN
     mp' = [mp EXCEPT !.phase = "created",
                      !.placeholders = Placeholders(mp.pk, mp.supplied),
                      !.bindVars = BindVars(mp.pk, mp.supplied),
                      !.failed = ~ok,
                      !.pkValues = known,
                      !.inserted = ok,
                      !.join = IF ~ok THEN NoValue
                               ELSE IF mp.itemJoin # NoValue THEN mp.itemJoin
                               ELSE pkValue,
                      !.selectWhere = known,
                      !.returned = (known # {})]
  /\ UNCHANGED <<db, call, dbVars, sq>>

\* Enterprise update: the cascade runs with `record.ID || record.id` as
\* parentId.
OraUpdateKeys ==
  /\ mp.phase = "keys" /\ mp.backend = "ora" /\ mp.op = "update"
  /\ mp' = [mp EXCEPT !.phase = "created",
                      !.inserted = TRUE,
                      !.join = IF mp.itemJoin # NoValue THEN mp.itemJoin
                               ELSE mp.parent["id"],
                      !.returned = TRUE]
  /\ UNCHANGED <<db, call, dbVars, sq>>

\* Row store, create and update: `{ ...createData, [relation.to.column]:
\* result[0][relation.from] }`.
PgWriteKeys ==
  /\ mp.phase = "keys" /\ mp.backend = "pg"
  /\ mp' = [mp EXCEPT !.phase = "created",
                      !.inserted = TRUE,
                      !.join = mp.parent[mp.from],
                      !.pkValues = Range(mp.pk),
                      !.returned = TRUE]
  /\ UNCHANGED <<db, call, dbVars, sq>>

InitKeys ==
  /\ db \in {"pg", "ora"}
  /\ call = [c \in Calls |-> IdleCall]
  /\ pgTx = [k \in PgConns |-> "idle"]
  /\ pgPending = [k \in PgConns |-> {}]
  /\ oraOut = {}
  /\ oraPending = [k \in OraConns |-> {}]
  /\ applied = {}
  /\ mp \in {u \in KeyInputs : u.backend = db}
  /\ sq = NoSql

NextKeys == OraCreateKeys \/ OraUpdateKeys \/ PgWriteKeys

SpecKeys == InitKeys /\ [][NextKeys]_vars

Created == mp.phase = "created"

\* C26: every row a relation cascade inserts carries in `to.column` the
\* value the parent row holds in the relation's local column.
C26_JoinIsParentValue ==
  (Created /\ mp.inserted) => mp.join = mp.parent[mp.from]

\* C26 on the row store.
C26_JoinIsParentValuePg ==
  (Created /\ mp.inserted /\ mp.backend = "pg") => mp.join = mp.parent[mp.from]

\* C26 for the enterprise create when the local column is the first
\* primary-key column and the item carries no join value.
C26_JoinIsParentValueOraFirstKey ==
  (Created /\ mp.inserted /\ mp.backend = "ora" /\ mp.op = "create"
     /\ mp.from = mp.pk[1] /\ mp.itemJoin = NoValue)
    => mp.join = mp.parent[mp.from]

CompositeUnsupplied ==
  mp.backend = "ora" /\ mp.op = "create" /\ Len(mp.pk) = 2 /\ mp.supplied = {}

\* C27: an enterprise create on a model with a composite primary key of
\* which the data supplies neither column binds every placeholder of its
\* statement, knows both key values after the insert, selects the created
\* record by both and returns it.
C27_CompositeKeysBound ==
  (Created /\ CompositeUnsupplied) =>
    /\ {SeqName(col) : col \in Range(mp.pk)} \subseteq mp.bindVars
    /\ mp.placeholders \subseteq mp.bindVars
    /\ mp.pkValues = Range(mp.pk)
    /\ mp.selectWhere = Range(mp.pk)
    /\ mp.returned

\* C27, the part that holds: both keys get a sequence-derived bind variable.
C27_SequenceBinds ==
  (Created /\ CompositeUnsupplied) =>
    {SeqName(col) : col \in Range(mp.pk)} \subseteq mp.bindVars

\* C27 when the data supplies both key columns.
C27_CompositeKeysSupplied ==
  (Created /\ mp.backend = "ora" /\ mp.op = "create" /\ Range(mp.pk) \subseteq mp.supplied) =>
    /\ mp.placeholders \subseteq mp.bindVars
    /\ mp.pkValues = Range(mp.pk)
    /\ mp.selectWhere = Range(mp.pk)
    /\ mp.returned

\* ------------------------------------------ claims: a failing ROLLBACK
RollbackFailed(c) == \E i \in SentKind(c, "ROLLBACK") : ~Issued(c)[i].ok
OriginalError(c) ==
  IF call[c].debug
  THEN call[c].out.kind = "returned" /\ call[c].out.envelope /\ call[c].out.error
  ELSE call[c].out = Thrown

\* C28: when a statement of create or update failed and the ROLLBACK failed
\* as well, the caller gets the statement's error the usual way: thrown
\* with debug off, as the error of the envelope with debug on.
C28_RollbackFailureKeepsError ==
  \A c \in Calls :
    (IsWriteCall(c) /\ HasOutcome(c) /\ RollbackFailed(c)) => OriginalError(c)

\* C28 on the enterprise backend, whose catch block puts the ROLLBACK in a
\* try / catch of its own.
C28_RollbackFailureKeepsErrorOra ==
  \A c \in Calls :
    (IsWriteCall(c) /\ call[c].backend = "ora" /\ HasOutcome(c) /\ RollbackFailed(c))
      => OriginalError(c)

\* ------------------------------------------------ the enterprise client
\* Pools are numbered in the order createPool made them; 0 stands for null.
MaxPools == 2
Pools == 1..MaxPools
NoPool == 0

\* The last call of the caller: its name, the pool it asked for a
\* connection (NoPool: none), how it ended, and whether initialize() had
\* succeeded with no close() called since when it was made.
Called(op, pool, error, initialized) ==
  [op |-> op, pool |-> pool, error |-> error, initialized |-> initialized]

\* connectionPool: the client's field; open: the pools not closed; held:
\* the pools that operation functions handed out earlier were made with.
Client(connectionPool, made, open, held, initialized, last) ==
  [phase |-> "client", connectionPool |-> connectionPool, made |-> made, open |-> open,
   held |-> held, initialized |-> initialized, last |-> last]

NewClient == Client(NoPool, 0, {}, {}, FALSE, Called("new", NoPool, "none", FALSE))

ClientStep(next) ==
  /\ mp.phase = "client"
  /\ mp' = next
  /\ UNCHANGED <<db, call, dbVars, sq>>

\* initialize(): this.connectionPool = await oracledb.createPool(...); a
\* failure is logged and thrown again.
initialize ==
  \E ok \in BOOLEAN :
    /\ ok => mp.made < MaxPools
    /\ ClientStep(
         IF ok
         THEN [mp EXCEPT !.connectionPool = mp.made + 1, !.made = @ + 1,
                         !.open = @ \cup {mp.made + 1}, !.initialized = TRUE,
                         !.last = Called("initialize", NoPool, "none", mp.initialized)]
         ELSE [mp EXCEPT !.last = Called("initialize", NoPool, "other", mp.initialized)])

\* close(): with a pool, close it and set the field to null, or throw with
\* the field kept and the pool still in use; without one, nothing.
close ==
  \E ok \in BOOLEAN :
    /\ mp.connectionPool = NoPool => ok
    /\ ClientStep(
         IF mp.connectionPool = NoPool
         THEN [mp EXCEPT !.initialized = FALSE,
                         !.last = Called("close", NoPool, "none", mp.initialized)]
         ELSE IF ok
         THEN [mp EXCEPT !.open = @ \ {mp.connectionPool}, !.connectionPool = NoPool,
                         !.initialized = FALSE,
                         !.last = Called("close", NoPool, "none", mp.initialized)]
         ELSE [mp EXCEPT !.last = Called("close", NoPool, "other", mp.initialized)])

\* model() and getModelOperations(): the operation functions are made with
\* the pool the field holds at this moment.
Obtain(op) ==
  IF mp.connectionPool = NoPool
  THEN [mp EXCEPT !.last = Called(op, NoPool, "notInitialized", mp.initialized)]
  ELSE [mp EXCEPT !.held = @ \cup {mp.connectionPool},
                  !.last = Called(op, NoPool, "none", mp.initialized)]

model ==
  /\ mp.phase = "client"
  /\ mp' = Obtain("model")
  /\ UNCHANGED <<db, call, dbVars, sq>>

getModelOperations ==
  /\ mp.phase = "client"
  /\ mp' = Obtain("getModelOperations")
  /\ UNCHANGED <<db, call, dbVars, sq>>

\* getConnection() of a pool: refused by the driver when the pool is
\* closed.
Requested(op, pool) ==
  [mp EXCEPT !.last = Called(op, pool, IF pool \in mp.open THEN "none" ELSE "other",
                             mp.initialized)]

\* raw() and transaction(): the field is tested first.
ThroughField(op) ==
  IF mp.connectionPool = NoPool
  THEN [mp EXCEPT !.last = Called(op, NoPool, "notInitialized", mp.initialized)]
  ELSE Requested(op, mp.connectionPool)

raw ==
  /\ mp.phase = "client"
  /\ mp' = ThroughField("raw")
  /\ UNCHANGED <<db, call, dbVars, sq>>

transaction ==
  /\ mp.phase = "client"
  /\ mp' = ThroughField("transaction")
  /\ UNCHANGED <<db, call, dbVars, sq>>

\* findMany / findFirst / create / update obtained earlier: they call
\* getConnection() on the pool they were made with.
Operation ==
  \E pool \in mp.held : ClientStep(Requested("operation", pool))

InitClient ==
  /\ db = "ora"
  /\ call = [c \in Calls |-> IdleCall]
  /\ pgTx = [k \in PgConns |-> "idle"]
  /\ pgPending = [k \in PgConns |-> {}]
  /\ oraOut = {}
  /\ oraPending = [k \in OraConns |-> {}]
  /\ applied = {}
  /\ mp = NewClient
  /\ sq = NoSql

NextClient ==
  initialize \/ close \/ model \/ getModelOperations \/ raw \/ transaction \/ Operation

SpecClient == InitClient /\ [][NextClient]_vars

DatabaseCalls == {"raw", "transaction", "operation"}

\* C29: no database operation of the enterprise client asks the pool for a
\* connection unless initialize() has succeeded and close() has not been
\* called since; outside that state it fails with the not-initialized error.
C29_OnlyWhenInitialized ==
  (mp.last.op \in DatabaseCalls /\ ~mp.last.initialized) =>
    (mp.last.pool = NoPool /\ mp.last.error = "notInitialized")

\* C29 for raw() and transaction(): they test the field at the time of the
\* call.
C29_DirectCallsTestTheField ==
  (mp.last.op \in {"raw", "transaction"} /\ ~mp.last.initialized) =>
    (mp.last.pool = NoPool /\ mp.last.error = "notInitialized")

\* C29: before the first successful initialize() nothing asks for a
\* connection.
C29_NothingBeforeInitialize ==
  mp.made = 0 => (mp.last.pool = NoPool /\ mp.held = {})

\* ------------------------------------------- batch inspection of tables
MaxTables == 3
MaxConcurrency == 2

TableNames == {<<"a">>, <<"a", "b">>, <<"b">>}
SkipPatterns == {<<>>, <<<<"a", "*">>>>, <<<<"?">>, <<"b", "*">>>>}

\* getTables: the tables of the schema, each once.
TableLists ==
  {ts \in SeqsUpTo(TableNames, MaxTables) :
     \A j, k \in DOMAIN ts : j # k => ts[j] # ts[k]}

\* new RegExp("^" + pattern.replace(/\*/g, ".*").replace(/\?/g, ".") + "$")
\* tested on the table name.
RECURSIVE Wildcard(_, _)
Wildcard(pattern, name) ==
  IF pattern = <<>> THEN name = <<>>
  ELSE IF Head(pattern) = "*"
       THEN Wildcard(Tail(pattern), name) \/ (name # <<>> /\ Wildcard(pattern, Tail(name)))
       ELSE /\ name # <<>>
            /\ Head(pattern) = "?" \/ Head(pattern) = Head(name)
            /\ Wildcard(Tail(pattern), Tail(name))

shouldSkipTable(tableName, skipPatterns) ==
  \E k \in DOMAIN skipPatterns : Wildcard(skipPatterns[k], tableName)

\* An index of Array.prototype.slice: a negative one counts from the end,
\* and both ends are kept inside the array.
SliceIndex(len, x) ==
  IF x < 0 THEN (IF len + x < 0 THEN 0 ELSE len + x)
  ELSE IF x > len THEN len ELSE x

\* tables.slice(start, end), as the positions 1..len it takes.
Slice(len, start, end) == (SliceIndex(len, start) + 1)..SliceIndex(len, end)

\* i += concurrency. Every i at or below -len takes the same empty slice,
\* so the counter is kept at -len from there on.
Advance(len, i, concurrency) ==
  IF i + concurrency < 0 - len THEN 0 - len ELSE i + concurrency

InspectInput(tables, concurrency, skipPatterns) ==
  [phase |-> "inspect", tables |-> tables, concurrency |-> concurrency,
   skipPatterns |-> skipPatterns, i |-> 0, pc |-> "loop", batch |-> {},
   inFlight |-> {}, rejected |-> FALSE, results |-> {}]

InspectInputs ==
  {InspectInput(tables, concurrency, skipPatterns) :
     tables \in TableLists, concurrency \in (0 - MaxConcurrency)..MaxConcurrency,
     skipPatterns \in SkipPatterns}

Skipped(k) == shouldSkipTable(sq.tables[k], sq.skipPatterns)

\* The loop test, the slice, and batch.map(async ...) up to the first await
\* of every callback: a skipped table's callback returns at once, the
\* others have called inspectTable.
StartBatch ==
  /\ sq.phase = "inspect" /\ sq.pc = "loop"
  /\ sq.i < Len(sq.tables)
  /\ LET batch == Slice(Len(sq.tables), sq.i, sq.i + sq.concurrency) IN
     sq' = [sq EXCEPT !.pc = "await", !.batch = batch,
                      !.inFlight = @ \cup {k \in batch : ~Skipped(k)}]
  /\ UNCHANGED <<db, call, dbVars, mp>>

\* inspectTable settles for one table.
inspectTable ==
  /\ sq.phase = "inspect"
  /\ \E k \in sq.inFlight, ok \in BOOLEAN :
       sq' = [sq EXCEPT !.inFlight = @ \ {k},
                        !.rejected = @ \/ (~ok /\ k \in sq.batch /\ sq.pc = "await")]
  /\ UNCHANGED <<db, call, dbVars, mp>>

\* await Promise.all(batchPromises): rejected with the first rejection,
\* fulfilled when every callback has returned; then the results of the
\* batch are stored and i is advanced.
AwaitBatch ==
  /\ sq.phase = "inspect" /\ sq.pc = "await"
  /\ sq.rejected \/ sq.inFlight \cap sq.batch = {}
  /\ sq' = IF sq.rejected
           THEN [sq EXCEPT !.pc = "thrown", !.batch = {}]
           ELSE [sq EXCEPT !.pc = "loop", !.batch = {},
                           !.results = @ \cup {sq.tables[k] : k \in {b \in sq.batch : ~Skipped(b)}},
                           !.i = Advance(Len(sq.tables), sq.i, sq.concurrency)]
  /\ UNCHANGED <<db, call, dbVars, mp>>

\* The loop test fails: return results.
ReturnResults ==
  /\ sq.phase = "inspect" /\ sq.pc = "loop"
  /\ ~(sq.i < Len(sq.tables))
  /\ sq' = [sq EXCEPT !.pc = "returned"]
  /\ UNCHANGED <<db, call, dbVars, mp>>

InitInspect ==
  /\ db \in {"pg", "ora"}
  /\ call = [c \in Calls |-> IdleCall]
  /\ pgTx = [k \in PgConns |-> "idle"]
  /\ pgPending = [k \in PgConns |-> {}]
  /\ oraOut = {}
  /\ oraPending = [k \in OraConns |-> {}]
  /\ applied = {}
  /\ mp = NoMap
  /\ sq \in InspectInputs

NextInspect == StartBatch \/ inspectTable \/ AwaitBatch \/ ReturnResults

\* The event loop runs every continuation that is ready, and every query
\* the driver sent settles.
SpecInspect == InitInspect /\ [][NextInspect]_vars /\ WF_vars(NextInspect)

Ended == sq.pc \in {"returned", "thrown"}
\* No inspection may be in flight under a concurrency of zero or less.
InFlightBounded ==
  Cardinality(sq.inFlight) <= (IF sq.concurrency < 0 THEN 0 ELSE sq.concurrency)
NotSkipped == {sq.tables[k] : k \in {j \in DOMAIN sq.tables : ~Skipped(j)}}
ResultsComplete == sq.pc = "returned" => sq.results = NotSkipped

\* C30: inspectAllWithProgressParallel ends for every table list and every
\* integer concurrency, never has more than `concurrency` inspections in
\* flight, and returns one entry for every table no skip pattern matches.
C30_BoundedInspection ==
  <>Ended /\ []InFlightBounded /\ []ResultsComplete

\* C30 for a concurrency of one or more.
C30_BoundedInspectionPositive ==
  (sq.concurrency >= 1) => (<>Ended /\ []InFlightBounded /\ []ResultsComplete)

\* C30: whatever the concurrency, a result that is returned is complete.
C30_ResultsComplete == ResultsComplete

\* C30, termination alone.
C30_Ends == <>Ended

\* C30, the bound alone.
C30_InFlightBounded == InFlightBounded

============================================================================
